---- MODULE Spec2Model ----
(***************************************************************************)
(* Model of the LOD/SND archive file manager TRSMMFiles (RSLod_part2.py)   *)
(* with the header hooks of TRSLodBase (RSLod_part4.py) and TRSSnd         *)
(* (RSLod_complete.py).                                                    *)
(*                                                                         *)
(* Bytes are symbolic: a byte string is a sequence of runs, each run a     *)
(* slice [off, off+len) of a named source (a payload, its deflated form,   *)
(* a header, the directory table, a name field, zero fill).  Names are     *)
(* sequences of ASCII codes.  Directory indexes are 0-based as in the      *)
(* source; slot i of the table is data[i+1].                               *)
(***************************************************************************)
EXTENDS Integers, Sequences, FiniteSets, TLC

VARIABLES
    kind,             \* archive variant: "heroes", "bitmaps", "games", "snd", "sndmm"
    write_on_demand,  \* TRSMMFiles.write_on_demand
    ar,               \* the TRSMMFiles object and its backing file
    pre,              \* ar before the last operation
    op,               \* the last operation and its arguments
    steps,            \* number of operations performed
    hist,             \* the operations so far, each with the archive before it
    pays,             \* the payloads the caller adds
    limit,            \* the number of operations the caller performs
    opened,           \* the last file opened by load() and the object it gave
    bitmaps_lods,     \* TRSLod.bitmaps_lods: <<>> or <<"self">>
    call              \* the last call of a function that is no method of the
                      \* archive (DEF codec, frame table, inflate), with its
                      \* arguments and what it returned

vars == <<kind, write_on_demand, ar, pre, op, steps, hist, pays, limit, opened,
          bitmaps_lods, call>>

Min(a, b) == IF a < b THEN a ELSE b
Max(a, b) == IF a > b THEN a ELSE b

(***************************************************************************)
(* Names                                                                   *)
(***************************************************************************)
Lower(c) == IF c >= 65 /\ c <= 90 THEN c + 32 ELSE c

RECURSIVE CompareFrom(_, _, _)
CompareFrom(s1, s2, i) ==
    IF i > Len(s1) /\ i > Len(s2) THEN 0
    ELSE IF i > Len(s1) THEN -1
    ELSE IF i > Len(s2) THEN 1
    ELSE IF Lower(s1[i]) < Lower(s2[i]) THEN -1
    ELSE IF Lower(s1[i]) > Lower(s2[i]) THEN 1
    ELSE CompareFrom(s1, s2, i + 1)

\* _stricmp: -1, 0, 1 on the lower-cased strings
rs_lod_compare_str(s1, s2) == CompareFrom(s1, s2, 1)

RECURSIVE SameFrom(_, _, _)
SameFrom(s1, s2, i) ==
    IF i > Len(s1) \/ i > Len(s2) \/ Lower(s1[i]) # Lower(s2[i]) THEN 0
    ELSE 1 + SameFrom(s1, s2, i + 1)

\* <<comparison, length of the common prefix>>
rs_lod_compare_str_with_count(s1, s2) ==
    <<rs_lod_compare_str(s1, s2), SameFrom(s1, s2, 1)>>

\* os.path.splitext(name)[1].lower() in ['.blv', '.odm']
is_blv_or_odm(name) ==
    LET n == Len(name)
        ext == [i \in 1..4 |-> Lower(name[n - 4 + i])]
    IN  /\ n > 4
        /\ ext \in {<<46, 98, 108, 118>>, <<46, 111, 100, 109>>}
        /\ \E i \in 1..(n - 4) : name[i] # 46

(***************************************************************************)
(* Per-variant options (init_options) and header length (write_header)     *)
(***************************************************************************)
Options(k) ==
    IF k = "heroes" THEN
        [NameSize |-> 16, AddrOffset |-> 16, SizeOffset |-> -1,
         UnpackedSizeOffset |-> 20, PackedSizeOffset |-> 28, ItemSize |-> 32,
         DataStart |-> 96, AddrStart |-> 0, MinFileSize |-> 320092]
    ELSE IF k \in {"bitmaps", "games"} THEN
        [NameSize |-> 16, AddrOffset |-> 16, SizeOffset |-> -1,
         UnpackedSizeOffset |-> 20, PackedSizeOffset |-> -1, ItemSize |-> 32,
         DataStart |-> 288, AddrStart |-> 288, MinFileSize |-> 0]
    ELSE IF k = "sndmm" THEN
        [NameSize |-> 40, AddrOffset |-> 40, SizeOffset |-> 44,
         UnpackedSizeOffset |-> 48, PackedSizeOffset |-> -1, ItemSize |-> 52,
         DataStart |-> 4, AddrStart |-> 0, MinFileSize |-> 0]
    ELSE
        [NameSize |-> 40, AddrOffset |-> 40, SizeOffset |-> 44,
         UnpackedSizeOffset |-> -1, PackedSizeOffset |-> -1, ItemSize |-> 48,
         DataStart |-> 4, AddrStart |-> 0, MinFileSize |-> 0]

options == Options(kind)

\* number of bytes the variant's on_write_header hook writes
HeaderLen(k) ==
    IF k = "heroes" THEN 92
    ELSE IF k \in {"bitmaps", "games"} THEN 288
    ELSE 4

games_lod == kind = "games"

(***************************************************************************)
(* Symbolic byte strings                                                   *)
(***************************************************************************)
Run(src, id, off, len, nm) ==
    [src |-> src, id |-> id, off |-> off, len |-> len, nm |-> nm]

Zero(n) == IF n <= 0 THEN <<>> ELSE <<Run("zero", 0, 0, n, <<>>)>>

RECURSIVE RunsLen(_)
RunsLen(rs) == IF rs = <<>> THEN 0 ELSE Head(rs).len + RunsLen(Tail(rs))

Mergeable(x, y) ==
    /\ x.src = y.src
    /\ x.id = y.id
    /\ \/ x.src = "zero"
       \/ x.src \in {"pay", "zpay"} /\ y.off = x.off + x.len

\* concatenation, joining two runs that continue one another
Cat(a, b) ==
    IF a = <<>> THEN b
    ELSE IF b = <<>> THEN a
    ELSE IF Mergeable(a[Len(a)], Head(b))
         THEN SubSeq(a, 1, Len(a) - 1)
              \o <<[a[Len(a)] EXCEPT !.len = @ + Head(b).len]>>
              \o Tail(b)
         ELSE a \o b

RECURSIVE Take(_, _)
Take(rs, n) ==
    IF n <= 0 \/ rs = <<>> THEN <<>>
    ELSE LET h == Head(rs)
         IN  IF h.len <= n THEN <<h>> \o Take(Tail(rs), n - h.len)
             ELSE <<[h EXCEPT !.len = n]>>

RECURSIVE Drop(_, _)
Drop(rs, n) ==
    IF rs = <<>> THEN <<>>
    ELSE IF n <= 0 THEN rs
    ELSE LET h == Head(rs)
         IN  IF h.len <= n THEN Drop(Tail(rs), n - h.len)
             ELSE <<[h EXCEPT !.len = @ - n,
                              !.off = IF h.src = "zero" THEN 0 ELSE @ + n]>>
                  \o Tail(rs)

\* stream.seek(addr); stream.read(n): clipped at the end of the file
FileRead(f, addr, n) == Take(Drop(f, addr), n)

\* stream.truncate(n): cut, or extend with zeros
FileTruncate(f, n) ==
    IF n <= RunsLen(f) THEN Take(f, n) ELSE Cat(f, Zero(n - RunsLen(f)))

\* stream.seek(addr); stream.write(bytes): a gap past the end reads as zeros
FileWrite(f, addr, bytes) ==
    LET Splice(g) == Cat(Cat(Take(g, addr), bytes), Drop(g, addr + RunsLen(bytes)))
    IN  Splice(IF addr > RunsLen(f) THEN FileTruncate(f, addr) ELSE f)

(***************************************************************************)
(* Payloads and zlib                                                       *)
(***************************************************************************)
\* payload id -> its length and the length of zlib.compress(payload, 6)
PayloadTable ==
    <<[len |-> 10, zlen |-> 18],     \* short: never deflated (size <= 64)
      [len |-> 100, zlen |-> 12],    \* deflates to fewer bytes
      [len |-> 100, zlen |-> 111],   \* deflates to more bytes
      [len |-> 832, zlen |-> 811],   \* palette file, palette 1 (a grey ramp)
      [len |-> 832, zlen |-> 824],   \* palette file, palette 2 (random)
      [len |-> 832, zlen |-> 843],   \* palette file, palette 3, header noise
      [len |-> 825, zlen |-> 836]>>  \* pack_bitmap of a 5x5 palette image

PayloadBytes(p) == <<Run("pay", p, 0, PayloadTable[p].len, <<>>)>>
DeflatedBytes(p) == <<Run("zpay", p, 0, PayloadTable[p].zlen, <<>>)>>

\* zlib.compress of a whole payload
Deflate(bytes) == DeflatedBytes(bytes[1].id)

\* zlib.decompress: defined on exactly one whole deflate stream
InflateOk(bytes) ==
    /\ Len(bytes) >= 1
    /\ bytes[1].src = "zpay"
    /\ bytes[1].off = 0
    /\ bytes[1].len = PayloadTable[bytes[1].id].zlen

Inflate(bytes) == PayloadBytes(bytes[1].id)

(***************************************************************************)
(* The directory table: a sequence of slots.  A slot holds the fields the  *)
(* variant's options give offsets for; the others stay 0.                  *)
(***************************************************************************)
BlankSlot == [name |-> <<>>, addr |-> 0, size |-> 0, unp |-> 0, pk |-> 0]

NoBuf == [has |-> FALSE, bytes |-> <<>>]
Buf(bytes) == [has |-> TRUE, bytes |-> bytes]

\* Python slices of a list: s[a:b], s[a:b] = x, s[-1:]
PySlice(s, a, b) == SubSeq(s, Min(a, Len(s)) + 1, Min(b, Len(s)))
PyAssign(s, a, b, x) ==
    LET lo == Min(a, Len(s))
        hi == Max(lo, Min(b, Len(s)))
    IN  SubSeq(s, 1, lo) \o x \o SubSeq(s, hi + 1, Len(s))
PyLast(s) == IF s = <<>> THEN <<>> ELSE <<s[Len(s)]>>
PyInsert(s, i, x) == PyAssign(s, i, i, <<x>>)
PyDel(s, i) == PyAssign(s, i, i + 1, <<>>)

get_name(a, i) == a.data[i + 1].name

get_address(a, i) ==
    IF i < a.count THEN a.data[i + 1].addr + options.AddrStart ELSE a.file_size

HasBuffer(a, i) == i < Len(a.file_buffers) /\ a.file_buffers[i + 1].has

get_size(a, i) ==
    IF HasBuffer(a, i) THEN RunsLen(a.file_buffers[i + 1].bytes)
    ELSE IF options.SizeOffset < 0 THEN
        LET r1 == IF options.PackedSizeOffset >= 0 THEN a.data[i + 1].pk ELSE 0
        IN  IF r1 = 0 /\ options.UnpackedSizeOffset >= 0
            THEN a.data[i + 1].unp ELSE r1
    ELSE a.data[i + 1].size

get_unpacked_size(a, i) ==
    IF options.UnpackedSizeOffset < 0 THEN get_size(a, i) ELSE a.data[i + 1].unp

get_is_packed(a, i) ==
    IF options.PackedSizeOffset >= 0 THEN a.data[i + 1].pk # 0
    ELSE IF options.SizeOffset >= 0 /\ options.UnpackedSizeOffset >= 0
         THEN a.data[i + 1].size # a.data[i + 1].unp
    ELSE FALSE

check_name(name) == Len(name) < options.NameSize

(***************************************************************************)
(* find_file                                                               *)
(***************************************************************************)
RECURSIVE LinearFrom(_, _, _, _, _, _)
LinearFrom(a, name, i, best, best_same, best_c) ==
    IF i >= a.count THEN <<FALSE, best>>
    ELSE LET cs == rs_lod_compare_str_with_count(name, get_name(a, i))
             c == cs[1]
             same == cs[2]
         IN  IF c = 0 THEN <<TRUE, i>>
             ELSE IF same > best_same \/ (same = best_same /\ best_c > 0)
                  THEN LinearFrom(a, name, i + 1,
                                  IF c > 0 THEN i + 1 ELSE i, same, c)
                  ELSE LinearFrom(a, name, i + 1, best, best_same, best_c)

_find_file_linear(a, name) == LinearFrom(a, name, 0, 0, 0, 1)

RECURSIVE _find_file_bin_search(_, _, _, _)
_find_file_bin_search(a, name, L, H) ==
    IF L > H THEN <<FALSE, L>>
    ELSE LET i == (L + H) \div 2
             c == rs_lod_compare_str(name, get_name(a, i))
         IN  IF c = 0 THEN <<TRUE, i>>
             ELSE IF c < 0 THEN _find_file_bin_search(a, name, L, i - 1)
             ELSE _find_file_bin_search(a, name, i + 1, H)

\* <<found, index>>
find_file(a, name) ==
    IF ~a.sorted THEN _find_file_linear(a, name)
    ELSE _find_file_bin_search(a, name, 0, a.count - 1)

RECURSIVE LastMapIndex(_, _)
LastMapIndex(a, i) ==
    IF i >= 0 /\ ~is_blv_or_odm(get_name(a, i)) THEN LastMapIndex(a, i - 1) ELSE i

\* find_add_index without the Games LOD branch: one ordering for all names
find_add_index_no_maps(a, name) == find_file(a, name)

find_add_index(a, name) ==
    LET AfterMaps(r, i) ==
            IF ~is_blv_or_odm(name)
            THEN _find_file_bin_search(a, name, i + 1, a.count - 1)
            ELSE <<FALSE, i + 1>>
        Place(r) ==
            IF ~r[1] /\ games_lod
            THEN AfterMaps(r, LastMapIndex(a, a.count - 1))
            ELSE r
    IN  Place(find_file(a, name))

(***************************************************************************)
(* Writing                                                                 *)
(***************************************************************************)
RECURSIVE MaxEnd(_, _, _)
MaxEnd(a, i, sz) ==
    IF i >= a.count THEN sz
    ELSE MaxEnd(a, i + 1, Max(sz, get_address(a, i) + get_size(a, i)))

\* on_write_header: TRSLodBase.write_header / TRSSnd.write_header, at the
\* stream's current position
HookWriteHeader(a, pos) ==
    FileWrite(a.disk, pos, <<Run("hdr", a.count, 0, HeaderLen(kind), <<>>)>>)

write_header(a) ==
    LET Dir(a1, d2) ==
            IF a.count = 0 THEN [a1 EXCEPT !.disk = d2]
            ELSE [a1 EXCEPT
                    !.disk = FileWrite(d2, options.DataStart,
                                 <<Run("dir", 0, 0,
                                       Len(a.data) * options.ItemSize, <<>>)>>),
                    !.diskDir = a.data]
        Hook(a1, pos) == Dir(a1, HookWriteHeader(a1, pos))
        Resize(sz, len) ==
            IF len # sz
            THEN Hook([a EXCEPT !.file_size = sz,
                                !.disk = FileTruncate(a.disk, sz)], 0)
            ELSE Hook([a EXCEPT !.file_size = sz], len)
    IN  Resize(MaxEnd(a, 0, options.DataStart + Len(a.data) * options.ItemSize),
               RunsLen(a.disk))

\* data.read(size) has been done by the caller: bytes; same_buf is
\* "data is self.file_buffers[index]"
do_write_file(a, index, bytes, size, addr, force_write, same_buf) ==
    LET a1 ==
          IF write_on_demand /\ ~force_write THEN
              LET n == Len(a.file_buffers)
                  fb == IF index >= n
                        THEN a.file_buffers \o [k \in 1..(index + 1 - n) |-> NoBuf]
                        ELSE a.file_buffers
              IN  [a EXCEPT !.file_buffers =
                       IF same_buf THEN fb ELSE [fb EXCEPT ![index + 1] = Buf(bytes)]]
          ELSE
              LET d1 == IF addr + size > RunsLen(a.disk)
                        THEN FileTruncate(a.disk, addr + size) ELSE a.disk
              IN  [a EXCEPT !.disk = FileWrite(d1, addr, bytes)]
    IN  [a1 EXCEPT !.data[index + 1].addr = addr - options.AddrStart,
                   !.file_size = Max(a.file_size, addr + size)]

\* get_as_is_file_stream(index) followed by read(get_size(index))
ReadEntry(a, index) ==
    IF HasBuffer(a, index) THEN a.file_buffers[index + 1].bytes
    ELSE FileRead(a.disk, get_address(a, index), get_size(a, index))

do_move_file(a, index, addr) ==
    IF HasBuffer(a, index)
    THEN do_write_file(a, index, a.file_buffers[index + 1].bytes,
                       RunsLen(a.file_buffers[index + 1].bytes), addr, FALSE, TRUE)
    ELSE do_write_file(a, index, ReadEntry(a, index), get_size(a, index),
                       addr, FALSE, FALSE)

RECURSIVE OtherBlocks(_, _, _, _)
OtherBlocks(a, i, addr, new_size) ==
    IF i >= a.count THEN FALSE
    ELSE LET other_addr == get_address(a, i)
         IN  IF other_addr >= addr /\ other_addr - addr < new_size THEN TRUE
             ELSE OtherBlocks(a, i + 1, addr, new_size)

can_expand(a, index, new_size) ==
    LET addr == get_address(a, index)
        sz == get_size(a, index)
    IN  IF new_size <= sz \/ addr + sz >= a.file_size THEN TRUE
        ELSE IF index + 1 < a.count THEN
            LET next_addr == get_address(a, index + 1)
            IN  next_addr >= addr /\ next_addr - addr >= new_size
        ELSE ~OtherBlocks(a, 0, addr, new_size)

insert_data(a, index) ==
    LET d == a.data \o <<BlankSlot>>
    IN  [a EXCEPT !.data =
            IF index < Len(d) - 1
            THEN SubSeq(d, 1, index) \o <<BlankSlot>> \o SubSeq(d, index + 1, Len(d) - 1)
            ELSE d]

remove_data(a, index) ==
    LET d == PyAssign(a.data, index, index + 1, PyLast(a.data))
    IN  [a EXCEPT !.data = SubSeq(d, 1, Len(d) - 1)]

(***************************************************************************)
(* add                                                                     *)
(***************************************************************************)
\* for i in range(count): if get_address(i) < addr: do_move_file(i, file_size)
RECURSIVE MoveLow(_, _, _)
MoveLow(a, i, addr) ==
    IF i >= a.count THEN a
    ELSE MoveLow(IF get_address(a, i) < addr
                 THEN do_move_file(a, i, a.file_size) ELSE a,
                 i + 1, addr)

\* the slot's name and size fields as add writes them
SetFields(a, i, name, size, unp_size, pk_size) ==
    [a EXCEPT !.data[i + 1].name = name,
              !.data[i + 1].size = IF options.SizeOffset >= 0 THEN size ELSE @,
              !.data[i + 1].unp = IF options.UnpackedSizeOffset >= 0 THEN unp_size ELSE @,
              !.data[i + 1].pk = IF options.PackedSizeOffset >= 0 THEN pk_size ELSE @]

\* add(name, data) with the default compression level 6 and no unpacked_size
add(a, name, p) ==
    LET size0 == PayloadTable[p].len
        keep == /\ size0 > 64
                /\ options.PackedSizeOffset >= 0 \/ options.UnpackedSizeOffset >= 0
                /\ RunsLen(Deflate(PayloadBytes(p))) < size0
        pk_size == IF keep THEN PayloadTable[p].zlen ELSE 0
        bytes == IF keep THEN Deflate(PayloadBytes(p)) ELSE PayloadBytes(p)
        size == IF keep THEN pk_size ELSE size0
        Finish(a2, result) ==
            [a |-> IF write_on_demand THEN a2 ELSE write_header(a2),
             result |-> result]
        Fields(a1, result) ==
            Finish(SetFields(a1, result, name, size, size0, pk_size), result)
        Write(h, result) ==
            Fields(do_write_file(h, result, bytes, size, h.file_size, FALSE, FALSE),
                   result)
        Grow(g, result) ==
            Write([g EXCEPT
                     !.file_buffers = PyInsert(@, result, NoBuf),
                     !.file_size = Max(@, options.DataStart
                                          + Len(g.data) * options.ItemSize)],
                  result)
        Moved(m, result) ==
            Grow(insert_data([m EXCEPT !.count = @ + 1], result), result)
        Place(r) ==
            IF r[1] THEN
                Fields(do_write_file(a, r[2], bytes, size,
                                     IF can_expand(a, r[2], size)
                                     THEN get_address(a, r[2]) ELSE a.file_size,
                                     FALSE, FALSE),
                       r[2])
            ELSE
                Moved(MoveLow(a, 0, options.DataStart
                                    + (a.count + 1) * options.ItemSize),
                      r[2])
    IN  Place(find_add_index(a, name))

\* do_write_file when the transfer of the payload raises: with
\* write_on_demand the buffer has been replaced by an empty one, otherwise
\* the file has been extended; the table and file_size are not reached
do_write_file_raising(a, index, size, addr) ==
    IF write_on_demand THEN
        LET Put(fb) == [a EXCEPT !.file_buffers = [fb EXCEPT ![index + 1] = Buf(<<>>)]]
        IN  Put(IF index >= Len(a.file_buffers)
                THEN a.file_buffers
                     \o [k \in 1..(index + 1 - Len(a.file_buffers)) |-> NoBuf]
                ELSE a.file_buffers)
    ELSE [a EXCEPT !.disk = IF addr + size > RunsLen(@)
                            THEN FileTruncate(@, addr + size) ELSE @]

\* the relocation loop of add when moving entry fail_at raises: with
\* write_on_demand in the read of get_as_is_file_stream, otherwise in the
\* write of do_write_file
RECURSIVE MoveLowRaising(_, _, _, _)
MoveLowRaising(a, i, addr, fail_at) ==
    IF i = fail_at
    THEN IF write_on_demand THEN a
         ELSE do_write_file_raising(a, i, get_size(a, i), a.file_size)
    ELSE MoveLowRaising(IF get_address(a, i) < addr
                        THEN do_move_file(a, i, a.file_size) ELSE a,
                        i + 1, addr, fail_at)

\* the entries add relocates before it inserts a slot, except those whose
\* relocation does no I/O
MovesOf(a) ==
    {i \in 0..(a.count - 1) :
        /\ get_address(a, i) < options.DataStart + (a.count + 1) * options.ItemSize
        /\ ~HasBuffer(a, i)}

\* add(name, data) when it raises after check_name.  at = "move": OSError
\* while entry i is relocated; "write": OSError while the payload is
\* written; "encode": name.encode('ascii') raises UnicodeEncodeError
add_raising(a, name, p, at, i) ==
    LET size0 == PayloadTable[p].len
        keep == /\ size0 > 64
                /\ options.PackedSizeOffset >= 0 \/ options.UnpackedSizeOffset >= 0
                /\ RunsLen(Deflate(PayloadBytes(p))) < size0
        bytes == IF keep THEN Deflate(PayloadBytes(p)) ELSE PayloadBytes(p)
        size == IF keep THEN PayloadTable[p].zlen ELSE size0
        Raise(a1, e) == [a1 EXCEPT !.raised = e]
        Encode(a1, result) ==
            Raise([a1 EXCEPT !.data[result + 1].name = <<>>], "UnicodeEncodeError")
        Write(h, result, addr) ==
            IF at = "write"
            THEN Raise(do_write_file_raising(h, result, size, addr), "OSError")
            ELSE Encode(do_write_file(h, result, bytes, size, addr, FALSE, FALSE),
                        result)
        Grow(g, result) ==
            Write([g EXCEPT
                     !.file_buffers = PyInsert(@, result, NoBuf),
                     !.file_size = Max(@, options.DataStart
                                          + Len(g.data) * options.ItemSize)],
                  result,
                  Max(g.file_size, options.DataStart + Len(g.data) * options.ItemSize))
        Moved(m, result) ==
            Grow(insert_data([m EXCEPT !.count = @ + 1], result), result)
        Place(r) ==
            IF r[1] THEN
                Write(a, r[2], IF can_expand(a, r[2], size)
                               THEN get_address(a, r[2]) ELSE a.file_size)
            ELSE IF at = "move" THEN
                Raise(MoveLowRaising(a, 0, options.DataStart
                                           + (a.count + 1) * options.ItemSize, i),
                      "OSError")
            ELSE
                Moved(MoveLow(a, 0, options.DataStart
                                    + (a.count + 1) * options.ItemSize),
                      r[2])
    IN  Place(find_add_index(a, name))

(***************************************************************************)
(* delete                                                                  *)
(***************************************************************************)
do_delete(a, i, no_write) ==
    LET Header(a2) == IF ~no_write /\ ~write_on_demand THEN write_header(a2) ELSE a2
        Buffers(a1) ==
            Header([a1 EXCEPT !.file_buffers = IF i < Len(@) THEN PyDel(@, i) ELSE @])
    IN  Buffers(remove_data([a EXCEPT !.count = @ - 1], i))

\* delete(name)
delete(a, name) ==
    LET Found(r) == IF r[1] THEN do_delete(a, r[2], FALSE) ELSE a
    IN  Found(find_file(a, name))

(***************************************************************************)
(* rename                                                                  *)
(***************************************************************************)
\* the name field of the entry, zero padded, written over the start of its
\* payload (TRSLodBase.after_rename_file)
after_rename_file(a, index) ==
    IF kind \in {"bitmaps"} /\ ~write_on_demand
    THEN [a EXCEPT !.disk = FileWrite(@, get_address(a, index),
                       <<Run("name", 0, 0, options.NameSize, get_name(a, index))>>)]
    ELSE a

rename(a, index, new_name) ==
    LET Header(a3, result) ==
            [a |-> after_rename_file(IF write_on_demand THEN a3
                                     ELSE write_header(a3), result),
             result |-> result]
        Insert(a1, g, item_data, file_buf) ==
            IF g[1]
            THEN [a |-> [a1 EXCEPT !.raised = "AssertionError"], result |-> -1]
            ELSE Header([a1 EXCEPT
                           !.count = @ + 1,
                           !.data = [PyAssign(@, g[2], g[2], item_data)
                                        EXCEPT ![g[2] + 1].name = new_name],
                           !.file_buffers = IF file_buf.has
                                            THEN PyInsert(@, g[2], file_buf)
                                            ELSE @],
                        g[2])
        Removed(a1, item_data, file_buf) ==
            Insert(a1, find_add_index(a1, new_name), item_data, file_buf)
        Remove(a0, has_buf) ==
            Removed([a0 EXCEPT
                       !.data = PyAssign(@, index, index + 1, PyLast(a0.data)),
                       !.file_buffers = IF has_buf THEN PyDel(@, index) ELSE @,
                       !.count = @ - 1],
                    PySlice(a0.data, index, index + 1),
                    IF has_buf THEN a0.file_buffers[index + 1] ELSE NoBuf)
        Collide(a0) == Remove(a0, index < Len(a0.file_buffers))
        Found(f) ==
            IF f[1] /\ f[2] = index THEN [a |-> a, result |-> index]
            ELSE Collide(IF f[1] THEN do_delete(a, f[2], TRUE) ELSE a)
    IN  Found(find_file(a, new_name))

(***************************************************************************)
(* extract                                                                 *)
(***************************************************************************)
\* raw_extract(i, output) in strict mode: [ok, bytes]
raw_extract(a, i) ==
    LET Out(data) ==
            IF get_is_packed(a, i)
            THEN IF InflateOk(data) THEN [ok |-> TRUE, bytes |-> Inflate(data)]
                 ELSE [ok |-> FALSE, bytes |-> <<>>]
            ELSE [ok |-> TRUE, bytes |-> data]
    IN  Out(ReadEntry(a, i))

(***************************************************************************)
(* save, save_as, close, new                                               *)
(***************************************************************************)
\* the loop of do_save.  The size argument buf.seek(0, 2) leaves the buffer
\* positioned at its end, so data.read(size) in do_write_file returns no
\* bytes: the file is only extended to addr + size.
RECURSIVE FlushFrom(_, _)
FlushFrom(a, i) ==
    IF i >= Len(a.file_buffers) THEN a
    ELSE FlushFrom(IF a.file_buffers[i + 1].has
                   THEN do_write_file(a, i, <<>>,
                                      RunsLen(a.file_buffers[i + 1].bytes),
                                      get_address(a, i), TRUE, FALSE)
                   ELSE a,
                   i + 1)

do_save(a) == write_header([FlushFrom(a, 0) EXCEPT !.file_buffers = <<>>])

save(a) == IF a.file_buffers # <<>> THEN do_save(a) ELSE a

\* do_save when the write of the buffer of entry fail_at raises OSError: the
\* exception leaves the loop, so the later buffers are not written, the
\* buffer list is not cleared and write_header is not called
do_save_raising(a, fail_at) ==
    LET Failed(a1, end) ==
            [a1 EXCEPT
               !.file_buffers = a.file_buffers,
               !.disk = IF end > RunsLen(@) THEN FileTruncate(@, end) ELSE @,
               !.raised = "OSError"]
    IN  Failed(FlushFrom([a EXCEPT !.file_buffers = SubSeq(@, 1, fail_at)], 0),
               get_address(a, fail_at) + RunsLen(a.file_buffers[fail_at + 1].bytes))

\* the copy loop of save_as: a.disk is the output file, src the input file;
\* an I/O error strikes while entry fail_at is copied
RECURSIVE CopyFrom(_, _, _, _)
CopyFrom(a, src, i, fail_at) ==
    IF i >= a.count THEN [a |-> a, ok |-> TRUE]
    ELSE IF i = fail_at THEN [a |-> a, ok |-> FALSE]
    ELSE LET bytes == IF HasBuffer(a, i) THEN a.file_buffers[i + 1].bytes
                      ELSE FileRead(src, get_address(a, i), get_size(a, i))
         IN  CopyFrom(do_write_file(a, i, bytes, get_size(a, i), a.file_size,
                                    TRUE, FALSE),
                      src, i + 1, fail_at)

\* save_as(filename); fail_at = -1: no error, 0..count-1: error while copying
\* that entry, count: error in write_header once file_size is set
save_as(a, fail_at) ==
    LET Copied(c) ==
            IF ~c.ok
            THEN [c.a EXCEPT !.data = a.data, !.file_size = a.file_size,
                             !.disk = a.disk, !.raised = "OSError"]
            ELSE IF fail_at = a.count
            THEN [c.a EXCEPT
                    !.file_size = MaxEnd(c.a, 0, options.DataStart
                                                 + Len(c.a.data) * options.ItemSize),
                    !.disk = a.disk,
                    !.raised = "OSError"]
            ELSE [write_header(c.a) EXCEPT !.file_buffers = <<>>]
    IN  Copied(CopyFrom([a EXCEPT
                           !.file_size = Max(options.MinFileSize,
                                             options.DataStart
                                             + Len(a.data) * options.ItemSize),
                           !.disk = <<>>],
                        a.disk, 0, fail_at))

\* save_as_no_block(filename): statement for statement the body of save_as
save_as_no_block(a, fail_at) == save_as(a, fail_at)

\* rebuild(): save_as_no_block to a temporary file, which then replaces the
\* archive's file
rebuild(a) == save_as_no_block(a, -1)

close(a) ==
    [a EXCEPT !.file_buffers = <<>>, !.count = 0, !.data = <<>>,
              !.sorted = TRUE, !.closed = TRUE]

\* new(filename, options) on an existing empty file
new ==
    do_save([data |-> <<>>, count |-> 0,
             file_size |-> Max(options.DataStart, options.MinFileSize),
             file_buffers |-> <<>>, sorted |-> TRUE,
             disk |-> <<>>, diskDir |-> <<>>,
             raised |-> "", closed |-> FALSE])

(***************************************************************************)
(* Palettes of a bitmaps LOD (TRSLod)                                      *)
(***************************************************************************)
\* the palette that a palette file carries in its last 768 bytes; the
\* palettes 1..4 are pairwise different and none is all zero
PaletteOf(p) == IF p = 4 THEN 1 ELSE IF p = 5 THEN 2 ELSE IF p = 6 THEN 3 ELSE 0

\* the payload that pack_bitmap returns
PackedBitmap == 7

RECURSIVE DigitsFrom(_, _, _)
DigitsFrom(name, i, v) ==
    IF i > Len(name) THEN v
    ELSE IF name[i] < 48 \/ name[i] > 57 THEN -1
    ELSE DigitsFrom(name, i + 1, 10 * v + name[i] - 48)

\* int(name[3:]) of a name that starts with "pal", -1 where the loop of
\* find_same_palette skips the entry (names hold letters and digits only)
PalNumber(name) ==
    IF /\ Len(name) > 3
       /\ Lower(name[1]) = 112 /\ Lower(name[2]) = 97 /\ Lower(name[3]) = 108
    THEN DigitsFrom(name, 4, 0) ELSE -1

\* is_same_palette(pal_entries, i), pal_entries the palette K
is_same_palette(a, K, i) ==
    /\ get_size(a, i) = 48 + 16 + 768
    /\ LET Same(pal_file) ==
               /\ Len(pal_file) = 1
               /\ pal_file[1].src = "pay"
               /\ pal_file[1].off = 16
               /\ pal_file[1].len = 48 + 768
               /\ PaletteOf(pal_file[1].id) = K
       IN  Same(IF HasBuffer(a, i)
                THEN Take(Drop(a.file_buffers[i + 1].bytes, 16), 48 + 768)
                ELSE FileRead(a.disk, get_address(a, i) + 16, 48 + 768))

RECURSIVE PalScan(_, _, _, _, _, _, _)
PalScan(a, K, i, m2, fr3, fr4, fr5) ==
    LET Entry(j) ==
            IF j <= 0 \/ j > 32767
            THEN PalScan(a, K, i + 1, m2, fr3, fr4, fr5)
            ELSE IF is_same_palette(a, K, i) THEN <<TRUE, j>>
            ELSE IF j <= fr3 THEN PalScan(a, K, i + 1, m2, j + 1, fr4, fr5)
            ELSE IF j <= fr4 THEN PalScan(a, K, i + 1, m2, fr3, j + 1, fr5)
            ELSE IF j <= fr5 THEN PalScan(a, K, i + 1, m2, fr3, fr4, j + 1)
            ELSE PalScan(a, K, i + 1, m2, fr3, fr4, fr5)
    IN  IF i >= m2
        THEN <<FALSE, IF fr3 < 1000 THEN fr3 ELSE IF fr4 < 10000 THEN fr4 ELSE fr5>>
        ELSE Entry(PalNumber(get_name(a, i)))

\* find_same_palette(pal_entries, pal): <<found, id>>
find_same_palette(a, K) ==
    LET Range(r1, r2) ==
            PalScan(a, K, IF r1[1] THEN r1[2] ELSE 0,
                    IF r2[1] THEN r2[2] ELSE a.count, 1, 1000, 10000)
    IN  IF kind # "bitmaps" THEN <<FALSE, 0>>
        ELSE Range(find_file(a, <<112, 97, 108>>), find_file(a, <<112, 97, 109>>))

\* find_same_palette_in_lods: the only LOD that bitmaps_lods can hold here
\* is the archive itself
find_same_palette_in_lods(lods, a, K) ==
    LET Found(r) == IF r[1] THEN r ELSE <<FALSE, 0>>
    IN  IF lods = <<>> THEN <<FALSE, 0>> ELSE Found(find_same_palette(a, K))

\* find_bitmap_palette(name, img) for an image in mode 'P' with palette K:
\* the palette id.  on_need_palette cannot change the local pal.
find_bitmap_palette(lods, a, K) ==
    LET Pick(r) == IF r[1] THEN r[2] ELSE 0
    IN  IF kind # "bitmaps" \/ lods = <<>> THEN 0
        ELSE Pick(find_same_palette_in_lods(lods, a, K))

\* add_bitmap(name, img) on a bitmaps LOD: pal is the id that pack_bitmap
\* stores in the bitmap's header
add_bitmap(lods, a, name, K) ==
    LET Packed(r, pal) == [a |-> r.a, result |-> r.result, pal |-> pal]
    IN  Packed(add(a, name, PackedBitmap), find_bitmap_palette(lods, a, K))

(***************************************************************************)
(* Opening a file: load() on a fresh object of the archive's class         *)
(***************************************************************************)
\* the little-endian words at offsets 4 and 8 of an MM header whose Version
\* string starts with "MMVI" or "Game"
WordMMVI == 1230392653
WordGame == 1701667143

\* What TRSLodBase.read_header reads of a file once short reads are padded
\* with zeros.  sig: the first four bytes, "LOD0" for 'LOD\0', "C8LOD" for
\* 0xC8 'LOD', "zero" for four zero bytes, "other"; version, count: the words
\* at offsets 4 and 8; lod_type: the variant that the Version and LodType
\* strings of an MM header name, "" if none; start: ArchiveStart; dir: the
\* slots that the file holds at offset 92
LodView(len, sig, version, count, lod_type, start, dir) ==
    [cls |-> "lod", len |-> len, sig |-> sig, version |-> version,
     count |-> count, lod_type |-> lod_type, start |-> start, dir |-> dir]

\* What TRSSnd.read_header reads of a file.  count: the word at offset 0;
\* entry: 0x34 bytes follow it; b0, b1: the two bytes at the address held
\* by the first slot, -1 where the file ends before them
SndView(len, count, entry, b0, b1) ==
    [cls |-> "snd", len |-> len, count |-> count, entry |-> entry,
     b0 |-> b0, b1 |-> b1]

\* the file starts with the header that on_write_header writes
StartsWithHeader(disk) ==
    disk # <<>> /\ disk[1].src = "hdr" /\ disk[1].off = 0
                /\ disk[1].len = HeaderLen(kind)

\* the byte of the archive's own file at pos: 120 and 156 (0x78 0x9C) open a
\* deflated payload, 0 is a zero byte, -1 is past the end, -2 any other byte
RECURSIVE ByteAt(_, _)
ByteAt(f, pos) ==
    IF f = <<>> THEN -1
    ELSE IF pos >= f[1].len THEN ByteAt(Tail(f), pos - f[1].len)
    ELSE IF f[1].src = "zero" THEN 0
    ELSE IF f[1].src = "zpay" /\ f[1].off + pos = 0 THEN 120
    ELSE IF f[1].src = "zpay" /\ f[1].off + pos = 1 THEN 156
    ELSE -2

\* the address field of the first slot of the archive's own SND file
FirstAddr(a) ==
    IF RunsLen(a.disk) >= 4 + 52 /\ a.diskDir # <<>>
       /\ FileRead(a.disk, 4, 48) = <<Run("dir", 0, 0, 48, <<>>)>>
    THEN a.diskDir[1].addr ELSE 0

\* the view of the archive's own file
ViewOf(a) ==
    LET c == IF StartsWithHeader(a.disk) THEN a.disk[1].id ELSE 0
        len == RunsLen(a.disk)
    IN  IF kind \in {"snd", "sndmm"}
        THEN SndView(len, c, len >= 4 + 52,
                     ByteAt(a.disk, FirstAddr(a)), ByteAt(a.disk, FirstAddr(a) + 1))
        ELSE IF ~StartsWithHeader(a.disk)
        THEN LodView(len, "zero", 0, 0, "", 0, <<>>)
        ELSE IF kind = "heroes"
        THEN LodView(len, "C8LOD", c, c, "", 0, <<>>)
        ELSE IF kind = "bitmaps"
        THEN LodView(len, "LOD0", WordMMVI, 0, "bitmaps", 288, <<>>)
        ELSE LodView(len, "LOD0", WordGame, WordMMVI, "games", 288, <<>>)

\* the outcome of on_read_header.  set: the hook has assigned sender.count;
\* otherwise the count stays the 0 that close() left
HookResult(raised, variant, set, count, opts) ==
    [raised |-> raised, variant |-> variant, set |-> set, count |-> count,
     opts |-> opts]

\* TRSLodBase.read_header
LodReadHeader(v) ==
    IF v.sig = "LOD0" THEN
        IF \/ v.version < 1000 /\ v.count < 10000
           \/ /\ v.version - v.count <= 1
              /\ v.count - v.version <= 1
              /\ v.count > 1000
        THEN HookResult("", "heroes", TRUE, v.count,
                        [Options("heroes") EXCEPT !.DataStart = 92])
        ELSE IF v.lod_type = ""
        THEN HookResult("ERSLodException: Unknown LOD version", "heroes", FALSE, 0, Options("heroes"))
        ELSE HookResult("", v.lod_type, FALSE, 0,
                        [Options(v.lod_type) EXCEPT !.DataStart = v.start,
                                                    !.AddrStart = v.start])
    ELSE HookResult("", "heroes", FALSE, 0, Options("heroes"))

\* TRSSnd.read_header: the two bytes are unpacked as a little-endian word
\* and compared with 0x789C
SndReadHeader(v) ==
    IF v.len < 4
    THEN HookResult("ERSLodException: Unknown SND format", "snd", FALSE, 0, Options("snd"))
    ELSE LET mm == /\ v.count > 0
                   /\ v.entry
                   /\ v.b0 >= 0 /\ v.b1 >= 0
                   /\ v.b0 + 256 * v.b1 = 30876
         IN  HookResult("", IF mm THEN "sndmm" ELSE "snd", FALSE, 0,
                        Options(IF mm THEN "sndmm" ELSE "snd"))

\* the size of a slot read from a file, under the options of the opened
\* archive (get_size without buffers)
SlotSize(o, s) ==
    IF o.SizeOffset < 0 THEN
        LET r1 == IF o.PackedSizeOffset >= 0 THEN s.pk ELSE 0
        IN  IF r1 = 0 /\ o.UnpackedSizeOffset >= 0 THEN s.unp ELSE r1
    ELSE s.size

SetMax(S) == CHOOSE m \in S : \A x \in S : x <= m
SetMin(S) == CHOOSE m \in S : \A x \in S : m <= x

\* calculate_file_size: the largest end of an entry, sz at the least
SlotsEnd(o, d, sz) ==
    SetMax({sz} \cup {d[i].addr + o.AddrStart + SlotSize(o, d[i]) : i \in 1..Len(d)})

\* TRSMMFiles.read_header on a fresh object, h the outcome of the hook
read_header(v, h) ==
    LET count == IF h.set THEN h.count ELSE 0
        held == (Max(v.len, h.opts.DataStart) - h.opts.DataStart) \div h.opts.ItemSize
        data == [i \in 1..count |->
                    IF i <= Len(v.dir) /\ i <= held THEN v.dir[i] ELSE BlankSlot]
    IN  IF h.raised # "" \/ count = 0
        THEN [raised |-> h.raised, variant |-> h.variant, opts |-> h.opts,
              count |-> count, data |-> <<>>, file_size |-> 0, sorted |-> TRUE]
        ELSE [raised |-> "", variant |-> h.variant, opts |-> h.opts,
              count |-> count, data |-> data,
              file_size |-> SlotsEnd(h.opts, data,
                                     Max(h.opts.DataStart, h.opts.MinFileSize)),
              sorted |-> \A i \in 1..(count - 1) :
                            rs_lod_compare_str(data[i].name, data[i + 1].name) <= 0]

\* load(filename) on a new TRSLodBase or TRSSnd object
load(v) ==
    read_header(v, IF v.cls = "snd" THEN SndReadHeader(v) ELSE LodReadHeader(v))

(***************************************************************************)
(* DEF frames (RSDef.py).  A frame is the byte string of a picture: the    *)
(* eight little-endian words of TRSDefPic, then the block.  Bytes are the  *)
(* numbers 0..255, positions are 0-based as in the source.                 *)
(***************************************************************************)
\* struct.pack('<I', v) and struct.pack('<H', v)
LE32(v) == <<v % 256, (v \div 256) % 256, (v \div 65536) % 256,
             (v \div 16777216) % 256>>
LE16(v) == <<v % 256, (v \div 256) % 256>>

\* data[p]
ByteOf(d, p) == d[p + 1]

\* struct.unpack('<I', data[p:p+4])[0] and struct.unpack('<H', data[p:p+2])[0]
U32(d, p) == ByteOf(d, p) + 256 * ByteOf(d, p + 1) + 65536 * ByteOf(d, p + 2)
             + 16777216 * ByteOf(d, p + 3)
U16(d, p) == ByteOf(d, p) + 256 * ByteOf(d, p + 1)

\* TRSDefPic(*struct.unpack('<8I', data[0:32]))
TRSDefPic(d) ==
    [FileSize |-> U32(d, 0), Compression |-> U32(d, 4), Width |-> U32(d, 8),
     Height |-> U32(d, 12), FrameWidth |-> U32(d, 16),
     FrameHeight |-> U32(d, 20), FrameLeft |-> U32(d, 24),
     FrameTop |-> U32(d, 28)]

\* n bytes v
Fill(n, v) == [k \in 1..n |-> v]

\* row with the n cells from i on set to the values of f (a function of the
\* offset k from i)
SetCells(row, i, n, f) ==
    [c \in 1..Len(row) |-> IF c - 1 >= i /\ c - 1 < i + n THEN f[c - 1 - i]
                           ELSE row[c]]

\* one line of compression 1, from position p of the data and column i:
\* the cells of the line in buf and sh_buf
RECURSIVE Line1(_, _, _, _, _)
Line1(d, p, i, x, row) ==
    IF i >= x \/ p >= Len(d) - 1 THEN row
    ELSE LET Copy(length) ==
                 Line1(d, p + 2 + length, i + length, x,
                       [row EXCEPT !.buf = SetCells(@, i, Min(length, x - i),
                            [k \in 0..(length - 1) |->
                                IF p + 2 + k < Len(d) THEN ByteOf(d, p + 2 + k)
                                ELSE IF i + k < Len(row.buf) THEN row.buf[i + k + 1]
                                ELSE 0])])
             Shadow(code, length) ==
                 Line1(d, p + 2, i + length, x,
                       [row EXCEPT !.sh = SetCells(@, i, Min(length, x - i),
                            [k \in 0..(length - 1) |-> code])])
         IN  IF ByteOf(d, p) = 255 THEN Copy(ByteOf(d, p + 1) + 1)
             ELSE Shadow(ByteOf(d, p), ByteOf(d, p + 1) + 1)

\* one line of compression 2 or 3
RECURSIVE Line2(_, _, _, _, _)
Line2(d, p, i, x, row) ==
    IF i >= x \/ p >= Len(d) THEN row
    ELSE LET Copy(length) ==
                 Line2(d, p + 1 + length, i + length, x,
                       [row EXCEPT !.buf = SetCells(@, i, Min(length, x - i),
                            [k \in 0..(length - 1) |->
                                IF p + 1 + k < Len(d) THEN ByteOf(d, p + 1 + k)
                                ELSE IF i + k < Len(row.buf) THEN row.buf[i + k + 1]
                                ELSE 0])])
             Shadow(code, length) ==
                 Line2(d, p + 1, i + length, x,
                       [row EXCEPT
                          !.sh = SetCells(@, i, Min(length, x - i),
                                         [k \in 0..(length - 1) |-> code]),
                          !.buf = IF code = 5
                                  THEN SetCells(@, i, Min(length, x - i),
                                                [k \in 0..(length - 1) |-> code])
                                  ELSE @])
         IN  IF ByteOf(d, p) \div 32 = 7 THEN Copy((ByteOf(d, p) % 32) + 1)
             ELSE Shadow(ByteOf(d, p) \div 32, (ByteOf(d, p) % 32) + 1)

\* the lines of a frame put into buffers of n cells: line j fills the cells
\* from j * x on, what the lines leave out keeps v
Buffer(n, x, lines, v) ==
    [c \in 1..n |-> IF (c - 1) \div x < Len(lines)
                    THEN lines[((c - 1) \div x) + 1][((c - 1) % x) + 1] ELSE v]

\* TRSDefWrapper._extract_buffer(0) on the data d of one frame: the header
\* as the caller sees it, buf, sh_buf (has_sh: sh_buf is not None)
ExtractResult(raised, hdr, buf, has_sh, sh) ==
    [raised |-> raised, hdr |-> hdr, buf |-> buf, has_sh |-> has_sh, sh |-> sh]

_extract_buffer(d) ==
    LET Old(h) == /\ h.FrameWidth > h.Width /\ h.FrameHeight > h.Height
                  /\ h.Compression = 1
        Hdr(h) == IF Old(h)
                  THEN [h EXCEPT !.FrameLeft = 0, !.FrameTop = 0,
                                 !.FrameWidth = h.Width, !.FrameHeight = h.Height]
                  ELSE h
        Block(h) == IF Old(h) THEN 32 - 16 ELSE 32
        Blank(x) == [buf |-> Fill(x, 0), sh |-> Fill(x, 255)]
        Built(h, n, x, lines) ==
            ExtractResult("", h, Buffer(n, x, [j \in 1..Len(lines) |-> lines[j].buf], 0),
                          TRUE, Buffer(n, x, [j \in 1..Len(lines) |-> lines[j].sh], 255))
        Lines1(h, bo, x, y) ==
            IF y > 0 /\ bo + 4 * y > Len(d)
            THEN ExtractResult("struct.error", h, <<>>, FALSE, <<>>)
            ELSE Built(h, x * y, x,
                       [j \in 1..y |-> Line1(d, bo + U32(d, bo + 4 * (j - 1)), 0, x,
                                             Blank(x))])
        Lines2(h, bo, n, x, y) ==
            IF y > 0 /\ bo + 2 * y > Len(d)
            THEN ExtractResult("struct.error", h, <<>>, FALSE, <<>>)
            ELSE Built(h, n, x,
                       [j \in 1..y |-> Line2(d, bo + U16(d, bo + 2 * (j - 1)), 0, x,
                                             Blank(x))])
        Body(h, bo, x, y) ==
            IF h.Compression = 0
            THEN ExtractResult("", h, SubSeq(d, bo + 1, Min(Len(d), bo + x * y)),
                               FALSE, <<>>)
            ELSE IF h.Compression = 1 THEN Lines1(h, bo, x, y)
            ELSE IF h.Compression = 2 THEN Lines2(h, bo, x * y, x, y)
            ELSE IF h.Compression = 3
            THEN Lines2(h, bo, x * y, 32, y * (x \div 32))
            ELSE ExtractResult("", h, Fill(x * y, 0), TRUE, Fill(x * y, 255))
        Parsed(h) == Body(Hdr(h), Block(h), Hdr(h).FrameWidth, Hdr(h).FrameHeight)
    IN  IF Len(d) < 32 THEN ExtractResult("struct.error", [Compression |-> 0], <<>>, FALSE, <<>>)
        ELSE Parsed(TRSDefPic(d))

\* An image in mode 'P': size and the pixels row by row; has: the object is
\* not None
Img(w, h, px) == [has |-> TRUE, w |-> w, h |-> h, px |-> px]
NoImg == [has |-> FALSE, w |-> 0, h |-> 0, px |-> <<>>]

\* pixels[x, y]
Pixel(im, x, y) == im.px[y * im.w + x + 1]

\* Image.new('P', (w, h), 0) with the frame (fw x fh pixels buf) pasted at
\* (left, top); paste clips the frame to the image
Pasted(w, h, fw, fh, left, top, buf) ==
    Img(w, h, [c \in 1..(w * h) |->
                 LET PixelAt(x, y) ==
                         IF /\ x >= left /\ x < left + fw
                            /\ y >= top /\ y < top + fh
                         THEN buf[(y - top) * fw + (x - left) + 1] ELSE 0
                 IN  PixelAt((c - 1) % w, (c - 1) \div w)])

\* TRSDefWrapper.extract_bmp(0, bmp_spec=<a bitmap>) on the data of one
\* frame: (img, img_spec), the object and the shadow canvas
ExtractBmpResult(raised, img, img_spec) ==
    [raised |-> raised, img |-> img, img_spec |-> img_spec]

extract_bmp(d) ==
    LET Canvas(h, buf) ==
            IF buf = <<>> THEN Img(h.Width, h.Height, Fill(h.Width * h.Height, 0))
            ELSE Pasted(h.Width, h.Height, h.FrameWidth, h.FrameHeight,
                        h.FrameLeft, h.FrameTop, buf)
        Made(r) ==
            IF r.raised # "" THEN ExtractBmpResult(r.raised, NoImg, NoImg)
            ELSE IF \/ r.buf # <<>> /\ Len(r.buf) # r.hdr.FrameWidth * r.hdr.FrameHeight
            THEN ExtractBmpResult("ValueError", NoImg, NoImg)
            ELSE ExtractBmpResult("", Canvas(r.hdr, r.buf),
                                  IF r.has_sh /\ r.sh # <<>>
                                  THEN Canvas(r.hdr, r.sh) ELSE NoImg)
    IN  Made(_extract_buffer(d))

\* Image.getbbox(): the box of the pixels that are not 0 as <<left, top,
\* right, bottom>>, <<>> for None
getbbox(im) ==
    LET Cols == {x \in 0..(im.w - 1) : \E y \in 0..(im.h - 1) : Pixel(im, x, y) # 0}
        Rows == {y \in 0..(im.h - 1) : \E x \in 0..(im.w - 1) : Pixel(im, x, y) # 0}
    IN  IF Cols = {} THEN <<>>
        ELSE <<SetMin(Cols), SetMin(Rows), SetMax(Cols) + 1, SetMax(Rows) + 1>>

\* the length of the run that the packer takes at column i of line j: equal
\* codes of sh_buf, at most max of them
RunLength(sh, base, i, w, max) ==
    LET Ends(n) == \/ i + n >= w
                   \/ sh[base + i + n + 1] # sh[base + i + 1]
                   \/ n >= max
    IN  CHOOSE n \in 1..max : Ends(n) /\ \A m \in 1..(n - 1) : ~Ends(m)

\* the opcodes of one line under compression 1; a number above 255 stands
\* for the append that raises
RECURSIVE PackLine1(_, _, _, _, _)
PackLine1(buf, sh, base, i, w) ==
    IF i >= w THEN <<>>
    ELSE LET Emit(code, length) ==
                 <<code, length - 1>>
                 \o (IF code = 255 THEN SubSeq(buf, base + i + 1, base + i + length)
                     ELSE <<>>)
                 \o PackLine1(buf, sh, base, i + length, w)
         IN  Emit(sh[base + i + 1], RunLength(sh, base, i, w, 256))

\* the opcodes of one line under compression 2 and 3:
\* (length - 1) | (code << 5), then the pixels if code >= 7
RECURSIVE PackLine2(_, _, _, _, _)
PackLine2(buf, sh, base, i, w) ==
    IF i >= w THEN <<>>
    ELSE LET Emit(code, length) ==
                 <<(length - 1) + 32 * code>>
                 \o (IF code >= 7 THEN SubSeq(buf, base + i + 1, base + i + length)
                     ELSE <<>>)
                 \o PackLine2(buf, sh, base, i + length, w)
         IN  Emit(sh[base + i + 1], RunLength(sh, base, i, w, 32))

\* the lengths of the lines before line j: len(compressed) when line j starts
RECURSIVE Before_(_, _)
Before_(lines, j) ==
    IF j <= 1 THEN 0 ELSE Before_(lines, j - 1) + Len(lines[j - 1])

RECURSIVE Concat(_, _)
Concat(lines, j) ==
    IF j > Len(lines) THEN <<>> ELSE lines[j] \o Concat(lines, j + 1)

\* a table of line offsets in words of width bytes: entry j is base plus
\* the lengths of the lines before line j.  offset_table of the packer has
\* base 0: len(compressed) when line j starts
RECURSIVE OffsetTable(_, _, _, _)
OffsetTable(lines, j, width, base) ==
    IF j > Len(lines) THEN <<>>
    ELSE (IF width = 4 THEN LE32(base + Before_(lines, j))
          ELSE LE16(base + Before_(lines, j)))
         \o OffsetTable(lines, j + 1, width, base)

\* TRSDefMaker._pack_bitmap(bmp, spec, compr) for a bitmap in mode 'P' and
\* a spec of the same size: the bytes of the frame
PackResult(raised, data) == [raised |-> raised, data |-> data]

_pack_bitmap(bmp, spec, compr) ==
    LET Box(b) == IF b = <<>> THEN <<0, 0, 0, 0>>
                  ELSE IF compr = 3
                  THEN <<(b[1] \div 32) * 32, (b[2] \div 32) * 32,
                         ((b[3] + 31) \div 32) * 32, ((b[4] + 31) \div 32) * 32>>
                  ELSE b
        Rect == IF compr # 0
                THEN Box(IF spec.has THEN getbbox(spec) ELSE getbbox(bmp))
                ELSE <<0, 0, bmp.w, bmp.h>>
        Header(r) ==
            LE32(compr) \o LE32(bmp.w) \o LE32(bmp.h) \o LE32(r[3] - r[1])
            \o LE32(r[4] - r[2]) \o LE32(r[1]) \o LE32(r[2])
        Cut(im, r) ==
            [c \in 1..((r[3] - r[1]) * (r[4] - r[2])) |->
                Pixel(im, r[1] + ((c - 1) % (r[3] - r[1])),
                          r[2] + ((c - 1) \div (r[3] - r[1])))]
        ToShadow(buf) ==
            [c \in 1..Len(buf) |->
                IF buf[c] < (IF compr = 1 THEN 8 ELSE 7) THEN buf[c] ELSE 255]
        Done(r, block) ==
            IF \E k \in 1..Len(block) : block[k] > 255
            THEN PackResult("ValueError", <<>>)
            ELSE PackResult("", LE32(Len(block)) \o Header(r) \o block)
        Lines1(buf, sh, fw, fh) ==
            [j \in 1..fh |-> PackLine1(buf, sh, (j - 1) * fw, 0, fw)]
        Lines2(buf, sh, fw, fh) ==
            [j \in 1..fh |-> PackLine2(buf, sh, (j - 1) * fw, 0, fw)]
        Table(lines, width) == OffsetTable(lines, 1, width, 0) \o Concat(lines, 1)
        Packed(r, buf, sh, fw, fh) ==
            IF compr = 0 THEN Done(r, buf)
            ELSE IF compr = 1 THEN Done(r, Table(Lines1(buf, sh, fw, fh), 4))
            ELSE IF compr = 2 THEN Done(r, Table(Lines2(buf, sh, fw, fh), 2))
            ELSE IF compr = 3
            THEN Done(r, Table(Lines2(buf, sh, 32, fh * (fw \div 32)), 2))
            ELSE Done(r, <<>>)
        Frame(r, buf) ==
            Packed(r, buf, IF spec.has THEN Cut(spec, r) ELSE ToShadow(buf),
                   r[3] - r[1], r[4] - r[2])
        Framed(r) ==
            IF r[3] - r[1] = 0 THEN PackResult("", LE32(0) \o Header(r))
            ELSE Frame(r, Cut(bmp, r))
    IN  IF compr = 3 /\ ~(bmp.w % 32 = 0 /\ bmp.h % 32 = 0)
        THEN PackResult("AssertionError", <<>>)
        ELSE Framed(Rect)

(***************************************************************************)
(* Frame durations of an animation (MMArchiveCLI.py)                       *)
(***************************************************************************)
\* the number of frames of the list that carry the name
Multiplicity(frames, name) ==
    Cardinality({i \in 1..Len(frames) : frames[i] = name})

\* most_repeated_frame(frames): the loop over frame_counts, whose keys are
\* in the order of their first frame; i is a 1-based position, the result a
\* 0-based index
RECURSIVE MostRepeatedFrom(_, _, _, _)
MostRepeatedFrom(frames, i, max_count, most_repeated) ==
    IF i > Len(frames) THEN most_repeated
    ELSE IF /\ \A k \in 1..(i - 1) : frames[k] # frames[i]
            /\ Multiplicity(frames, frames[i]) > max_count
    THEN MostRepeatedFrom(frames, i + 1, Multiplicity(frames, frames[i]), i - 1)
    ELSE MostRepeatedFrom(frames, i + 1, max_count, most_repeated)

most_repeated_frame(frames) == MostRepeatedFrom(frames, 1, 0, 0)

\* a duration: the float n / d of a true division, or the integer n (d = 1)
Ms(n, d) == [n |-> n, d |-> d]

\* get_frame_durations(frames, def_type, group_id, def_name); adv is
\* isAdvMapCreature(def_name)
get_frame_durations(frames, def_type, group_id, adv) ==
    LET Duration(num, pNum) ==
            IF def_type = "9" /\ group_id = 4 /\ num = 5 THEN Ms(1000, 1)
            ELSE IF def_type = "9" /\ group_id = 1 THEN Ms(1000, 8)
            ELSE IF def_type = "2" /\ group_id = 2 /\ num = 7 THEN Ms(3000, 1)
            ELSE IF def_type = "3" /\ adv /\ num = pNum THEN Ms(1000, 1)
            ELSE IF def_type = "3" THEN Ms(1000, 6)
            ELSE Ms(100, 1)
        All(pNum) == [k \in 1..Len(frames) |-> Duration(k - 1, pNum)]
    IN  All(most_repeated_frame(frames))

(***************************************************************************)
(* Inflating in tolerant mode (unzip_ignore_errors, RSLod.py).  An input   *)
(* stream is given by what a zlib decompressor does with it byte by byte:  *)
(* outs[k] is the number of bytes it returns for byte k, -1 where it       *)
(* raises zlib.error; eof is the number of the byte that ends the deflate  *)
(* stream, 0 if the input has no such byte.                                *)
(***************************************************************************)
ZStream(outs, eof) == [outs |-> outs, eof |-> eof]

\* zlib.compress of 100 zero bytes and of b'0123456789'
Z100 == <<0, 0, 0, 1, 1, 0, 98, 0, 0, 0, 0, 0>>
Z10 == <<0, 0, 0, 1, 1, 1, 1, 1, 1, 1, 1, 1, 1, 0, 0, 0, 0, 0>>

\* the two streams whole, with a wrong last byte (the checksum), cut short,
\* followed by other bytes; bytes that are no stream; no bytes
ZStreams ==
    {ZStream(Z100, Len(Z100)), ZStream(Z10, Len(Z10)),
     ZStream([Z100 EXCEPT ![Len(Z100)] = -1], 0),
     ZStream([Z10 EXCEPT ![Len(Z10)] = -1], 0),
     ZStream(SubSeq(Z100, 1, 8), 0), ZStream(SubSeq(Z10, 1, 12), 0),
     ZStream(Z10 \o <<0, 0, 0>>, Len(Z10)),
     ZStream(<<0, -1>>, 0), ZStream(<<>>, 0)}

\* the bytes that the decompressor returns for the bytes i..n of the input
RECURSIVE OutSum(_, _, _)
OutSum(outs, i, n) ==
    IF i > n THEN 0 ELSE outs[i] + OutSum(outs, i + 1, n)

\* zlib.decompress(input.read()): the length of the data, -1 where it raises
ZDecompress(s) == IF s.eof = 0 THEN -1 ELSE OutSum(s.outs, 1, s.eof)

\* the bytes written by the loop that feeds the decompressor one byte at a
\* time, at most remaining times: it ends at the byte that raises, and
\* reads nothing past the end of the input
FeedBytes(s, remaining) ==
    LET Raising == {k \in 1..Len(s.outs) : s.outs[k] < 0}
        Fed == IF Raising = {} THEN Len(s.outs) ELSE SetMin(Raising) - 1
    IN  OutSum(s.outs, 1, Min(remaining, Fed))

\* unzip_ignore_errors(output, input, unp, noless) on an empty output: the
\* number of inflated bytes written and of the zero bytes after them
Unzipped(data, zeros) == [data |-> data, zeros |-> zeros]

unzip_ignore_errors(s, unp, noless) ==
    LET Pad(read_ok) ==
            Unzipped(read_ok, IF noless /\ unp > read_ok THEN unp - read_ok ELSE 0)
    IN  IF ZDecompress(s) >= 0 THEN Unzipped(Min(ZDecompress(s), unp), 0)
        ELSE Pad(FeedBytes(s, unp))

(***************************************************************************)
(* The state machine: one archive, created by new, then any sequence of    *)
(* operations by a single caller.  An operation that raised, or close,     *)
(* ends the use of the object.                                             *)
(***************************************************************************)
MaxSteps == 3
MaxStepsDir == 4
MaxAdds == 4
MaxCount == 3
MaxStepsErr == 3
MaxStepsRebuild == 4
MaxStepsLoad == 3
MaxStepsOpen == 1
MaxStepsPal == 3
MaxPalCount == 3
MaxStepsRename == 4
MaxFrameHeight == 2
MaxFrames == 8
MaxUnp == 12
MaxStepsExpand == 4
MaxStepsStaged == 4
MaxStepsHeader == 3

Kinds == {"heroes", "bitmaps", "games", "snd", "sndmm"}

\* "a", "A", "b", "c", "m"; for a Games LOD "a", "c", "b.blv", "d.odm"
Names ==
    IF kind = "games"
    THEN {<<97>>, <<99>>, <<98, 46, 98, 108, 118>>, <<100, 46, 111, 100, 109>>}
    ELSE {<<97>>, <<65>>, <<98>>, <<99>>, <<109>>}

Op(type, name, pay, index, result, fail) ==
    [type |-> type, name |-> name, pay |-> pay, index |-> index,
     result |-> result, fail |-> fail]

\* no file has been opened; the file v and the object that load(v) gave
NotOpened == [done |-> FALSE]
Opened(v, r) == [done |-> TRUE, view |-> v, ar |-> r]

Usable == ~ar.closed /\ ar.raised = "" /\ steps < limit

\* the state after new(): K the variants, W the write_on_demand settings,
\* P the payloads and n the number of operations of the behaviours
\* no function outside the archive has been called
NoCall == [fn |-> ""]

InitCfg(K, W, P, n, L) ==
    /\ call = NoCall
    /\ kind \in K
    /\ bitmaps_lods \in L
    /\ write_on_demand \in W
    /\ pays = P
    /\ limit = n
    /\ ar = new
    /\ pre = new
    /\ op = Op("new", <<>>, 0, -1, -1, -1)
    /\ steps = 0
    /\ hist = <<>>
    /\ opened = NotOpened

StepWith(a, o, od) ==
    /\ ar' = a
    /\ pre' = ar
    /\ op' = o
    /\ steps' = steps + 1
    /\ hist' = Append(hist, [a |-> ar, o |-> o])
    /\ opened' = od
    /\ UNCHANGED <<kind, write_on_demand, pays, limit, bitmaps_lods, call>>

Step(a, o) == StepWith(a, o, opened)

\* a TRSLod object keeps the empty bitmaps_lods of its constructor
InitWith(K, W, P, n) == InitCfg(K, W, P, n, {<<>>})

Add ==
    \E n \in Names, p \in pays :
        /\ Usable
        /\ check_name(n)
        /\ find_add_index(ar, n)[1] \/ ar.count < MaxCount
        /\ LET Done(r) == Step(r.a, Op("add", n, p, -1, r.result, -1))
           IN  Done(add(ar, n, p))

Delete ==
    \E n \in Names :
        /\ Usable
        /\ Step(delete(ar, n), Op("delete", n, 0, -1, -1, -1))

DeleteIndex ==
    \E i \in 0..(ar.count - 1) :
        /\ Usable
        /\ Step(do_delete(ar, i, FALSE), Op("delete_index", <<>>, 0, i, -1, -1))

Rename ==
    \E i \in 0..(ar.count - 1), n \in Names :
        /\ Usable
        /\ check_name(n)
        /\ LET Done(r) == Step(r.a, Op("rename", n, 0, i, r.result, -1))
           IN  Done(rename(ar, i, n))

Save ==
    /\ Usable
    /\ Step(save(ar), Op("save", <<>>, 0, -1, -1, -1))

SaveAs ==
    \E f \in -1..ar.count :
        /\ Usable
        /\ Step(save_as(ar, f), Op("save_as", <<>>, 0, -1, -1, f))

Close ==
    /\ Usable
    /\ Step(close(ar), Op("close", <<>>, 0, -1, -1, -1))

\* "\u00e9": shorter than every NameSize, not encodable as ASCII
NonAscii == <<233>>

RaisingOp == [move |-> "add_move", write |-> "add_write", encode |-> "add_encode"]

\* add raising after check_name
AddRaises ==
    \E n \in Names \cup {NonAscii}, p \in pays,
       at \in {"move", "write", "encode"}, i \in -1..(ar.count - 1) :
        /\ Usable
        /\ check_name(n)
        /\ find_add_index(ar, n)[1] \/ ar.count < MaxCount
        /\ (at = "encode") <=> (n = NonAscii)
        /\ IF at = "move"
           THEN ~find_add_index(ar, n)[1] /\ i \in MovesOf(ar)
           ELSE i = -1
        /\ Step(add_raising(ar, n, p, at, i), Op(RaisingOp[at], n, p, i, -1, -1))

\* do_save raising while a pending buffer is written
SaveRaises ==
    \E f \in 0..(Len(ar.file_buffers) - 1) :
        /\ Usable
        /\ HasBuffer(ar, f)
        /\ Step(do_save_raising(ar, f), Op("save_raising", <<>>, 0, -1, -1, f))

Rebuild ==
    /\ Usable
    /\ Step(rebuild(ar), Op("rebuild", <<>>, 0, -1, -1, -1))

\* a second object of the archive's class opens the archive's file
Load ==
    /\ Usable
    /\ StepWith(ar, Op("load", <<>>, 0, -1, -1, -1), Opened(ViewOf(ar), load(ViewOf(ar))))

\* files that were not written by this program: LOD files of every
\* signature, whole, cut short or empty, and SND files with at most one
\* entry, whose payload starts with "RI", 0x78 0x9C or 0x9C 0x78
SlotX == [name |-> <<120>>, addr |-> 156, size |-> 0, unp |-> 10, pk |-> 0]
SlotA == [name |-> <<97>>, addr |-> 166, size |-> 0, unp |-> 10, pk |-> 0]

LodFiles ==
    {LodView(len, sig, version, count, "", 0, dir) :
        len \in {96, 400}, sig \in {"LOD0", "C8LOD", "zero", "other"},
        version \in {0, 200, 4670, WordMMVI}, count \in {0, 2, 4669},
        dir \in {<<>>, <<SlotX, SlotA>>}}
    \cup {LodView(400, "LOD0", WordMMVI, 0, "bitmaps", 288, <<>>)}
    \cup {LodView(len, sig, 0, 0, "", 0, <<>>) :
            len \in {0, 2}, sig \in {"zero", "other"}}

SndFiles ==
    {SndView(70, count, TRUE, b0, b1) :
        count \in {0, 1}, b0 \in {82, 120, 156}, b1 \in {73, 120, 156}}
    \cup {SndView(4, count, FALSE, -1, -1) : count \in {0, 1}}
    \cup {SndView(2, 0, FALSE, -1, -1)}

\* a new object of the archive's class opens a file from elsewhere
Open ==
    \E v \in LodFiles \cup SndFiles :
        /\ Usable
        /\ v.cls = IF kind \in {"snd", "sndmm"} THEN "snd" ELSE "lod"
        /\ StepWith(ar, Op("open", <<>>, 0, -1, -1, -1), Opened(v, load(v)))

\* "pal001", "pal002", "pal003" and the bitmaps "x", "y"
PalNames == {<<112, 97, 108, 48, 48, 49>>, <<112, 97, 108, 48, 48, 50>>,
             <<112, 97, 108, 48, 48, 51>>}
BitmapNames == {<<120>>, <<121>>}

\* the image palettes: those of the palette files and one more
Palettes == {1, 2, 3, 4}

\* add(name, data) of a palette file
AddPal ==
    \E n \in PalNames, p \in pays :
        /\ Usable
        /\ PaletteOf(p) # 0
        /\ find_add_index(ar, n)[1] \/ ar.count < MaxPalCount
        /\ LET Done(r) == Step(r.a, Op("add", n, p, -1, r.result, -1))
           IN  Done(add(ar, n, p))

\* add_bitmap(name, img): index is the palette id given to the bitmap, pay
\* the palette of the image
AddBitmap ==
    \E n \in BitmapNames, K \in Palettes :
        /\ Usable
        /\ find_add_index(ar, n)[1] \/ ar.count < MaxPalCount
        /\ LET Done(r) == Step(r.a, Op("add_bitmap", n, K, r.pal, r.result, -1))
           IN  Done(add_bitmap(bitmaps_lods, ar, n, K))

\* every variant, direct writes, every operation
Init == InitWith(Kinds, {FALSE}, {1, 2, 3}, MaxSteps)
Next == Add \/ Delete \/ DeleteIndex \/ Rename \/ Save \/ SaveAs \/ Close
Spec == Init /\ [][Next]_vars

\* every variant, write_on_demand on, every operation
InitWod == InitWith(Kinds, {TRUE}, {1, 2, 3}, MaxSteps)
SpecWod == InitWod /\ [][Next]_vars

\* longer behaviours of one SND archive, one payload
InitDir == InitWith({"snd"}, {FALSE}, {1}, MaxStepsDir)
SpecDir == InitDir /\ [][Next]_vars

\* a Games LOD that is only added to
InitAdds == InitWith({"games"}, {FALSE}, {1, 2}, MaxAdds)
NextAdds == Add
SpecAdds == InitAdds /\ [][NextAdds]_vars

\* every variant, both write modes, adds and saves that may raise
InitErr == InitWith(Kinds, {FALSE, TRUE}, {1, 2}, MaxStepsErr)
NextErr == Add \/ AddRaises \/ Save \/ SaveRaises
SpecErr == InitErr /\ [][NextErr]_vars

\* every variant, one payload: archives that are edited and rebuilt
InitRebuild == InitWith(Kinds, {FALSE}, {1}, MaxStepsRebuild)
NextRebuild == Add \/ Delete \/ Rename \/ Rebuild
SpecRebuild == InitRebuild /\ [][NextRebuild]_vars

\* every variant: archives that are saved to a new file, which is opened
InitLoad == InitWith(Kinds, {FALSE}, {1, 2}, MaxStepsLoad)
NextLoad == Add \/ Delete \/ SaveAs \/ Load
SpecLoad == InitLoad /\ [][NextLoad]_vars

\* a LOD object and an SND object that open files from elsewhere
InitOpen == InitWith({"heroes", "snd"}, {FALSE}, {1}, MaxStepsOpen)
NextOpen == Open
SpecOpen == InitOpen /\ [][NextOpen]_vars

\* a bitmaps LOD that palette files and bitmaps are added to, with the
\* archive itself in bitmaps_lods or not
InitPal == InitCfg({"bitmaps"}, {FALSE, TRUE}, {4, 5, 6}, MaxStepsPal, {<<>>, <<"self">>})
NextPal == AddPal \/ AddBitmap
SpecPal == InitPal /\ [][NextPal]_vars

\* one MM6 bitmaps LOD in both write modes: entries are added, renamed and
\* saved
InitRename == InitWith({"bitmaps"}, {FALSE, TRUE}, {1, 2}, MaxStepsRename)
NextRename == Add \/ Rename \/ Save
SpecRename == InitRename /\ [][NextRename]_vars

(***************************************************************************)
(* DEF frames: a frame of a DEF file is decoded, the two canvases are      *)
(* packed again and the packed frame is decoded                            *)
(***************************************************************************)
DefCall(fn, data, first, compr, packed, second) ==
    [fn |-> fn, data |-> data, first |-> first, compr |-> compr,
     packed |-> packed, second |-> second]

NoExtract == ExtractBmpResult("", NoImg, NoImg)
NoPack == PackResult("", <<>>)

\* the bytes of a frame as _extract_buffer reads them: header, table of the
\* line offsets from the start of the block, lines
DefFrame(compr, w, h, fw, fh, left, top, lines) ==
    LET Block(width) ==
            OffsetTable(lines, 1, width, width * Len(lines)) \o Concat(lines, 1)
        Framed(block) ==
            LE32(Len(block)) \o LE32(compr) \o LE32(w) \o LE32(h) \o LE32(fw)
            \o LE32(fh) \o LE32(left) \o LE32(top) \o block
    IN  Framed(Block(IF compr = 1 THEN 4 ELSE 2))

\* lines of 4 pixels under compression 1: four pixels; four transparent;
\* two flag pixels and two pixels; one shadow pixel and three pixels
Lines1_4 == {<<255, 3, 9, 9, 8, 8>>, <<0, 3>>, <<5, 1, 255, 1, 9, 9>>,
             <<1, 0, 255, 2, 9, 8, 9>>}

\* the same lines under compression 2
Lines2_4 == {<<7 * 32 + 3, 9, 9, 8, 8>>, <<3>>, <<5 * 32 + 1, 7 * 32 + 1, 9, 9>>,
             <<32, 7 * 32 + 2, 9, 8, 9>>}

\* lines of 32 pixels under compression 2 and 3: 32 pixels of colour 9; 32
\* transparent; 16 flag pixels (colour 5) and 16 transparent
Lines2_32 == {<<7 * 32 + 31>> \o Fill(32, 9), <<31>>, <<5 * 32 + 15, 15>>}

\* where a frame of fw x fh pixels lies in its picture: the whole picture,
\* or with a margin on every side
Placed(fw, fh, m) ==
    {[w |-> fw, h |-> fh, left |-> 0, top |-> 0],
     [w |-> fw + 2 * m, h |-> fh + 2 * m, left |-> m, top |-> m]}

DefFrames ==
    {DefFrame(1, pl.w, pl.h, 4, Len(ls), pl.left, pl.top, ls) :
        <<ls, pl>> \in {<<ls, pl>> \in
            (UNION {[1..n -> Lines1_4] : n \in 1..MaxFrameHeight})
            \X (UNION {Placed(4, n, 1) : n \in 1..MaxFrameHeight}) :
                pl.h \in {Len(ls), Len(ls) + 2}}}
    \cup {DefFrame(2, pl.w, pl.h, 4, Len(ls), pl.left, pl.top, ls) :
        <<ls, pl>> \in {<<ls, pl>> \in
            (UNION {[1..n -> Lines2_4] : n \in 1..MaxFrameHeight})
            \X (UNION {Placed(4, n, 1) : n \in 1..MaxFrameHeight}) :
                pl.h \in {Len(ls), Len(ls) + 2}}}
    \cup {DefFrame(2, pl.w, pl.h, 32, 1, pl.left, pl.top, <<l>>) :
            l \in Lines2_32, pl \in Placed(32, 1, 1)}
    \cup {DefFrame(3, pl.w, pl.h, 32, 32, pl.left, pl.top,
                   [j \in 1..32 |-> IF j % 2 = 1 THEN l1 ELSE l2]) :
            l1 \in Lines2_32, l2 \in Lines2_32, pl \in Placed(32, 32, 32)}

\* pictures that come from no DEF: 16 pixels of colour 5 and 16 transparent
\* ones; four pixels of colour 9
Pictures ==
    {Img(32, 1, [c \in 1..32 |-> IF c <= 16 THEN 5 ELSE 0]), Img(4, 1, Fill(4, 9))}

DefCalls ==
    {DefCall("frame", d, NoExtract, 0, NoPack, NoExtract) : d \in DefFrames}
    \cup {DefCall("picture", <<>>, ExtractBmpResult("", im, NoImg), 0, NoPack,
                  NoExtract) : im \in Pictures}

\* extract_bmp(0, bmp_spec=<a bitmap>) on the frame
ExtractBmp ==
    /\ call.fn = "frame"
    /\ call' = [call EXCEPT !.fn = "extract_bmp", !.first = extract_bmp(call.data)]
    /\ UNCHANGED <<kind, write_on_demand, ar, pre, op, steps, hist, pays, limit,
                   opened, bitmaps_lods>>

\* _pack_bitmap(img, img_spec, compr) on the canvases
PackBitmap ==
    \E c \in {1, 2, 3} :
        /\ call.fn \in {"extract_bmp", "picture"}
        /\ call.first.raised = ""
        /\ call' = [call EXCEPT !.fn = "_pack_bitmap", !.compr = c,
                      !.packed = _pack_bitmap(call.first.img, call.first.img_spec, c)]
        /\ UNCHANGED <<kind, write_on_demand, ar, pre, op, steps, hist, pays,
                       limit, opened, bitmaps_lods>>

\* extract_bmp(0, bmp_spec=<a bitmap>) on the packed frame
ExtractPacked ==
    /\ call.fn = "_pack_bitmap"
    /\ call.packed.raised = ""
    /\ call' = [call EXCEPT !.fn = "extract_packed",
                            !.second = extract_bmp(call.packed.data)]
    /\ UNCHANGED <<kind, write_on_demand, ar, pre, op, steps, hist, pays, limit,
                   opened, bitmaps_lods>>

\* the calls of a program that holds no archive
InitCalls(C) ==
    /\ call \in C
    /\ kind = "heroes"
    /\ bitmaps_lods = <<>>
    /\ write_on_demand = FALSE
    /\ pays = {}
    /\ limit = 0
    /\ ar = new
    /\ pre = new
    /\ op = Op("new", <<>>, 0, -1, -1, -1)
    /\ steps = 0
    /\ hist = <<>>
    /\ opened = NotOpened

InitDef == InitCalls(DefCalls)
NextDef == ExtractBmp \/ PackBitmap \/ ExtractPacked
SpecDef == InitDef /\ [][NextDef]_vars

(***************************************************************************)
(* Frame durations: get_frame_durations is called on the frame names of a  *)
(* group                                                                   *)
(***************************************************************************)
DurationsCall(fn, frames, def_type, group_id, adv, durations) ==
    [fn |-> fn, frames |-> frames, def_type |-> def_type, group_id |-> group_id,
     adv |-> adv, durations |-> durations]

\* the type strings of the DEF types 0x42, 0x43, 0x44, 0x49
DefTypes == {"2", "3", "4", "9"}
GroupIds == {0, 1, 2, 4}
FrameNames == {"a", "b"}

DurationsCalls ==
    {DurationsCall("frames", f, dt, g, adv, <<>>) :
        f \in UNION {[1..n -> FrameNames] : n \in 0..MaxFrames},
        dt \in DefTypes, g \in GroupIds, adv \in BOOLEAN}

GetFrameDurations ==
    /\ call.fn = "frames"
    /\ call' = [call EXCEPT !.fn = "get_frame_durations",
                  !.durations = get_frame_durations(call.frames, call.def_type,
                                                    call.group_id, call.adv)]
    /\ UNCHANGED <<kind, write_on_demand, ar, pre, op, steps, hist, pays, limit,
                   opened, bitmaps_lods>>

InitDurations == InitCalls(DurationsCalls)
NextDurations == GetFrameDurations
SpecDurations == InitDurations /\ [][NextDurations]_vars

(***************************************************************************)
(* Tolerant extraction: raw_extract with ignore_unzip_errors calls         *)
(* unzip_ignore_errors on the stream of a packed entry                     *)
(***************************************************************************)
UnzipCall(fn, stream, unp, noless, out) ==
    [fn |-> fn, stream |-> stream, unp |-> unp, noless |-> noless, out |-> out]

\* the unpacked sizes of the entry: small ones, the sizes of the two
\* payloads, a larger one
UnpackedSizes == 0..MaxUnp \cup {100, 200}

\* raw_extract passes noless = True
UnzipCalls ==
    {UnzipCall("stream", s, unp, TRUE, Unzipped(0, 0)) :
        s \in ZStreams, unp \in UnpackedSizes}

UnzipIgnoreErrors ==
    /\ call.fn = "stream"
    /\ call' = [call EXCEPT !.fn = "unzip_ignore_errors",
                  !.out = unzip_ignore_errors(call.stream, call.unp, call.noless)]
    /\ UNCHANGED <<kind, write_on_demand, ar, pre, op, steps, hist, pays, limit,
                   opened, bitmaps_lods>>

InitUnzip == InitCalls(UnzipCalls)
NextUnzip == UnzipIgnoreErrors
SpecUnzip == InitUnzip /\ [][NextUnzip]_vars

\* a Heroes LOD, direct writes: adds that grow and replace, deletes, renames
InitExpand == InitWith({"heroes"}, {FALSE}, {1, 2}, MaxStepsExpand)
NextExpand == Add \/ Delete \/ DeleteIndex \/ Rename
SpecExpand == InitExpand /\ [][NextExpand]_vars

\* a Heroes LOD, write_on_demand on: adds, deletes, renames of staged entries
InitStaged == InitWith({"heroes"}, {TRUE}, {1, 2}, MaxStepsStaged)
NextStaged == Add \/ Delete \/ DeleteIndex \/ Rename
SpecStaged == InitStaged /\ [][NextStaged]_vars

(***************************************************************************)
(* The streams of TRSMMFiles: block_stream, the read handle kept open      *)
(* across operations when block_in_file is set, and write_stream, shared   *)
(* by nested writes through writes_count.  A stream is the file it is open *)
(* on and its mode; the entries are known by their number and by which of  *)
(* them have a buffer in file_buffers.                                     *)
(***************************************************************************)
MaxStepsStreams == 3
MaxEntries == 2

Stream(name, mode) == [name |-> name, mode |-> mode]
NoStream == Stream("", "")

\* records that both streams were open at once during the operation
Held(h) ==
    [h EXCEPT !.both = h.both \/ (h.block_stream # NoStream /\ h.write_stream # NoStream)]

begin_write(h) ==
    LET Begun(g) == Held([g EXCEPT !.write_stream = Stream(g.out_file, "r+b")])
        Unblocked ==
            IF h.block_stream # NoStream /\ h.in_file = h.out_file
            THEN [h EXCEPT !.block_stream = NoStream] ELSE h
        W == IF h.write_stream = NoStream THEN Begun(Unblocked) ELSE h
    IN  [W EXCEPT !.writes_count = @ + 1]

\* begin_read opens in_file anew unless the write stream is on the same file
ReadsFromWrite(h) == h.write_stream # NoStream /\ h.in_file = h.out_file

end_write(h) ==
    LET D == [h EXCEPT !.writes_count = @ - 1]
        C == [D EXCEPT !.write_stream = NoStream]
    IN  IF D.writes_count # 0 THEN D
        ELSE IF h.block_in_file /\ h.in_file = h.out_file /\ h.block_stream = NoStream
             THEN [C EXCEPT !.block_stream = Stream(h.in_file, "rb")]
             ELSE C

StreamsWriteHeader(h) == end_write(begin_write(h))

Buffered(h, i) == i < Len(h.file_buffers) /\ h.file_buffers[i + 1]

\* file_buffers.extend([None] * (index + 1 - len)), then [index] = BytesIO()
SetBuffer(fb, i) ==
    [k \in 1..Max(Len(fb), i + 1) |-> IF k = i + 1 THEN TRUE
                                      ELSE IF k <= Len(fb) THEN fb[k] ELSE FALSE]
\* list.insert(i, v) and del list[i], 0-based
InsertBuffer(fb, i, v) ==
    SubSeq(fb, 1, Min(i, Len(fb))) \o <<v>> \o SubSeq(fb, Min(i, Len(fb)) + 1, Len(fb))
DelBuffer(fb, i) ==
    IF i < Len(fb) THEN SubSeq(fb, 1, i) \o SubSeq(fb, i + 2, Len(fb)) ELSE fb

StreamsWriteFile(h, index, force_write) ==
    IF h.write_on_demand /\ ~force_write
    THEN [h EXCEPT !.file_buffers = SetBuffer(@, index)]
    ELSE end_write(begin_write(h))

\* do_move_file: inside a write on the archive's own file the payload is
\* read through the write stream, which begin_write and end_write bracket
StreamsMoveFile(h, index) ==
    IF Buffered(h, index) THEN StreamsWriteFile(h, index, FALSE)
    ELSE StreamsWriteFile(end_write(begin_write(h)), index, FALSE)

RECURSIVE StreamsMoveFiles(_, _, _)
StreamsMoveFiles(h, moved, i) ==
    IF i >= h.count THEN h
    ELSE StreamsMoveFiles(IF i \in moved THEN StreamsMoveFile(h, i) ELSE h, moved, i + 1)

\* add: found says that the name is there, at result; moved are the entries
\* whose payload lies where the grown table will be
StreamsAdd(h, found, result, moved) ==
    LET Written(g) == StreamsWriteFile(g, result, FALSE)
        Grown(g) == [g EXCEPT !.count = @ + 1,
                              !.file_buffers = InsertBuffer(@, result, FALSE)]
        Placed1(g) == IF found THEN Written(g)
                      ELSE Written(Grown(StreamsMoveFiles(g, moved, 0)))
        Header(g) == IF g.write_on_demand THEN g ELSE StreamsWriteHeader(g)
    IN  end_write(Header(Placed1(begin_write(h))))

StreamsDoDelete(h, i, no_write) ==
    LET Gone == [h EXCEPT !.count = @ - 1, !.file_buffers = DelBuffer(@, i)]
    IN  IF ~no_write /\ ~h.write_on_demand THEN StreamsWriteHeader(Gone) ELSE Gone

\* rename: target is -1 when no entry has the new name, else its index;
\* result is the place find_add_index gives the renamed entry
StreamsRename(h, index, target, result) ==
    LET Locked(g) == IF h.write_on_demand THEN g ELSE begin_write(g)
        Unlocked(g) == IF h.write_on_demand THEN g ELSE end_write(g)
        Moved(g) ==
            [g EXCEPT !.file_buffers =
                IF Buffered(g, index) THEN InsertBuffer(DelBuffer(@, index), result, TRUE)
                ELSE DelBuffer(@, index)]
        Header(g) == IF g.write_on_demand THEN g ELSE StreamsWriteHeader(g)
        Body(g) == IF target = index THEN g
                   ELSE IF target >= 0 THEN Header(Moved(StreamsDoDelete(g, target, TRUE)))
                   ELSE Header(Moved(g))
    IN  Unlocked(Body(Locked(h)))

RECURSIVE StreamsWriteBuffers(_, _)
StreamsWriteBuffers(h, i) ==
    IF i >= Len(h.file_buffers) THEN h
    ELSE StreamsWriteBuffers(IF Buffered(h, i) THEN StreamsWriteFile(h, i, TRUE) ELSE h, i + 1)

StreamsDoSave(h) ==
    LET Flushed(g) == [g EXCEPT !.file_buffers = <<>>]
    IN  end_write(StreamsWriteHeader(Flushed(StreamsWriteBuffers(begin_write(h), 0))))

StreamsSave(h) == IF h.file_buffers # <<>> THEN StreamsDoSave(h) ELSE h

\* the entries of save_as that have no buffer are read with begin_read; on
\* the archive's own file that is the write stream, opened 'wb', and read
\* raises io.UnsupportedOperation after begin_write has counted the read
Unreadable(h) ==
    ReadsFromWrite(h) /\ h.write_stream.mode = "wb"
        /\ \E i \in 0..(h.count - 1) : ~Buffered(h, i)

\* save_as and save_as_no_block
StreamsSaveAs(h, filename) ==
    LET Target == Held([h EXCEPT !.out_file = filename,
                                 !.write_stream = Stream(filename, "wb"),
                                 !.writes_count = @ + 1])
        Copied(g) == StreamsWriteHeader(StreamsWriteBuffers(g, 0))
        Moved(g) == [g EXCEPT !.file_buffers = <<>>, !.block_stream = NoStream,
                              !.in_file = g.out_file]
    IN  IF Unreadable(Target)
        THEN [end_write(begin_write(Target)) EXCEPT !.raised = TRUE]
        ELSE Moved(end_write(Copied(Target)))

\* rebuild saves to a temporary file, which takes the place of the file
StreamsRebuild(h) ==
    LET Back(g) == [g EXCEPT !.in_file = h.out_file, !.out_file = h.out_file]
        Blocked(g) == IF g.block_in_file
                      THEN [g EXCEPT !.block_stream = Stream(g.in_file, "rb")] ELSE g
    IN  Blocked(Back(StreamsSaveAs(h, "tmp")))

\* the object after new(filename, options): close, then do_save
StreamsNew(bif, wod) ==
    StreamsDoSave([fn |-> "new", block_in_file |-> bif, write_on_demand |-> wod,
                   block_stream |-> NoStream, write_stream |-> NoStream,
                   writes_count |-> 0, in_file |-> "f", out_file |-> "f",
                   count |-> 0, file_buffers |-> <<>>, both |-> FALSE,
                   raised |-> FALSE, n |-> 0])

\* an operation starts with no memory of the one before; r is what it
\* makes of the object
Fresh(h) == [h EXCEPT !.both = FALSE]
Called(fn, r) == [r EXCEPT !.fn = fn, !.n = @ + 1]

StreamsStep(h) ==
    /\ call' = h
    /\ UNCHANGED <<kind, write_on_demand, ar, pre, op, steps, hist, pays, limit,
                   opened, bitmaps_lods>>

StreamsReady == call.fn # "" /\ ~call.raised /\ call.n < MaxStepsStreams

FilesAdd ==
    /\ StreamsReady
    /\ \E found \in BOOLEAN :
       \E result \in 0..call.count :
       \E moved \in SUBSET (0..(call.count - 1)) :
        /\ found => result < call.count /\ moved = {}
        /\ ~found => call.count < MaxEntries
        /\ StreamsStep(Called("add", StreamsAdd(Fresh(call), found, result, moved)))

FilesDelete ==
    /\ StreamsReady
    /\ \E i \in 0..(call.count - 1) :
        StreamsStep(Called("delete", StreamsDoDelete(Fresh(call), i, FALSE)))

FilesRename ==
    /\ StreamsReady
    /\ \E index \in 0..(call.count - 1) :
       \E target \in -1..(call.count - 1) :
       \E result \in 0..(call.count - 1) :
        /\ target = index => result = index
        /\ target >= 0 /\ target # index => result < call.count - 1
        /\ StreamsStep(Called("rename",
                              StreamsRename(Fresh(call), index, target, result)))

FilesSave ==
    /\ StreamsReady
    /\ StreamsStep(Called("save", StreamsSave(Fresh(call))))

FilesSaveAs ==
    /\ StreamsReady
    /\ \E filename \in {"f", "g"} :
        StreamsStep(Called("save_as", StreamsSaveAs(Fresh(call), filename)))

FilesRebuild ==
    /\ StreamsReady
    /\ StreamsStep(Called("rebuild", StreamsRebuild(Fresh(call))))

InitStreams ==
    InitCalls({StreamsNew(bif, wod) : bif \in BOOLEAN, wod \in BOOLEAN})
NextStreams ==
    FilesAdd \/ FilesDelete \/ FilesRename \/ FilesSave \/ FilesSaveAs \/ FilesRebuild
SpecStreams == InitStreams /\ [][NextStreams]_vars

(***************************************************************************)
(* The header of a simple archive: the signature 'LOD\0', then the version *)
(* and the count as 32-bit words.  An archive is loaded from such a file,  *)
(* operations change its count and write the header, the file is loaded    *)
(* again.                                                                  *)
(***************************************************************************)
\* the words at offsets 4 and 8 of the file
HeaderWords(version, count) == [version |-> version, count |-> count]

\* TRSLodBase.write_header for RSLodHeroes: the count goes to both words
WriteSimpleHeader(count) == HeaderWords(count, count)

\* the file as read_header reads it; its bytes from offset 4 on spell no MM
\* version
SimpleView(w) == LodView(96, "LOD0", w.version, w.count, "", 0, <<>>)

\* read_header takes the simple branch
IsSimple(h) == h.raised = "" /\ h.set /\ h.opts.DataStart = 92

HeaderVersions == {0, 1, 200, 999, 1000, 1001, 4670, 10000}
HeaderCounts == {0, 1, 2, 999, 1000, 1001, 4669, 9999, 10000, 10001}

\* version: heroes_header['Version'] of the object; count: sender.count;
\* file: the header words in the file; written: write_header has written
\* them; reopened: the outcome and the version word of the last load
HeaderCall(fn, version, count, file, written, reopened, n) ==
    [fn |-> fn, version |-> version, count |-> count, file |-> file,
     written |-> written, reopened |-> reopened, n |-> n]

Reopened(h, w) == [raised |-> h.raised, simple |-> IsSimple(h), version |-> w.version,
                   count |-> IF h.set THEN h.count ELSE 0]

\* the object after load of a file that holds the words w
HeaderLoaded(w) ==
    HeaderCall("load", w.version, w.count, w, FALSE,
               Reopened(LodReadHeader(SimpleView(w)), w), 0)

HeaderCalls ==
    {HeaderLoaded(w) :
        w \in {x \in [version : HeaderVersions, count : HeaderCounts] :
                  IsSimple(LodReadHeader(SimpleView(x)))}}

HeaderStep(h) ==
    /\ call' = h
    /\ UNCHANGED <<kind, write_on_demand, ar, pre, op, steps, hist, pays, limit,
                   opened, bitmaps_lods>>

\* add or delete of one entry, or a write of the unchanged directory, with
\* write_on_demand off: TRSMMFiles.write_header calls the hook at offset 0
\* when it has resized the file, else where the file ends
HeaderWrite ==
    /\ call.fn \in {"load", "write_header"}
    /\ call.reopened.simple
    /\ call.n < MaxStepsHeader
    /\ \E count \in {call.count - 1, call.count, call.count + 1}, resized \in BOOLEAN :
        /\ count >= 0
        /\ HeaderStep([call EXCEPT !.fn = "write_header", !.count = count,
                          !.file = IF resized THEN WriteSimpleHeader(count) ELSE @,
                          !.written = resized,
                          !.n = @ + 1])

\* load of the file on a new object
HeaderLoad ==
    /\ call.fn = "write_header"
    /\ HeaderStep([call EXCEPT !.fn = "load",
                      !.reopened = Reopened(LodReadHeader(SimpleView(call.file)), call.file)])

InitHeader == InitCalls(HeaderCalls)
NextHeader == HeaderWrite \/ HeaderLoad
SpecHeader == InitHeader /\ [][NextHeader]_vars

\* well-formedness of the model's own indexing
TypeOK ==
    /\ ar.count >= 0
    /\ ar.count <= Len(ar.data)
    /\ Len(ar.file_buffers) <= Len(ar.data)

(***************************************************************************)
(* Vocabulary of the properties                                            *)
(***************************************************************************)
\* the last operation's record in hist, and the ones before it
LastOp(k) == hist[Len(hist) - k].o
Before(k) == hist[Len(hist) - k].a

SameName(n1, n2) == rs_lod_compare_str(n1, n2) = 0

\* the indexes below count that carry the name
IndexesOf(a, name) == {i \in 0..(a.count - 1) : SameName(get_name(a, i), name)}

Present(a, name) == IndexesOf(a, name) # {}

\* the number of bytes add hands to do_write_file for payload p
StoredLen(p) ==
    IF /\ PayloadTable[p].len > 64
       /\ options.PackedSizeOffset >= 0 \/ options.UnpackedSizeOffset >= 0
       /\ PayloadTable[p].zlen < PayloadTable[p].len
    THEN PayloadTable[p].zlen ELSE PayloadTable[p].len

\* the operations so far are all of the given types
OnlyOps(types) == \A k \in 1..Len(hist) : hist[k].o.type \in types

(***************************************************************************)
(* C1                                                                      *)
(***************************************************************************)
\* C1: with write_on_demand off, after add(name, bytes) with the default
\* compression level, find_file(name) reports found, raw_extract of that
\* index yields exactly the bytes that were added, and get_size of the entry
\* is the number of bytes stored on disk by the add.
C1_AddRoundTrip ==
    (~write_on_demand /\ Len(hist) >= 1 /\ op.type = "add") =>
        LET r == find_file(ar, op.name)
        IN  /\ r[1]
            /\ raw_extract(ar, r[2]) = [ok |-> TRUE, bytes |-> PayloadBytes(op.pay)]
            /\ get_size(ar, r[2]) = StoredLen(op.pay)

(***************************************************************************)
(* C2                                                                      *)
(***************************************************************************)
\* C2: for a name not present in the archive, add(name, bytes) followed by
\* delete(name) leaves find_file(name) not found and the directory count
\* equal to its value before the add.
C2_AddDeleteInverse ==
    (/\ Len(hist) >= 2
     /\ LastOp(1).type = "add"
     /\ LastOp(0).type = "delete"
     /\ LastOp(0).name = LastOp(1).name
     /\ ~Present(Before(1), LastOp(1).name)) =>
        /\ ~find_file(ar, LastOp(0).name)[1]
        /\ ar.count = Before(1).count

(***************************************************************************)
(* C3                                                                      *)
(***************************************************************************)
\* C3: after rename(i, new) with a non-colliding new name, the entry found
\* under new extracts to the same bytes that entry i extracted to before the
\* rename.
C3_RenameKeepsBytes ==
    (/\ Len(hist) >= 1
     /\ op.type = "rename"
     /\ ~Present(pre, op.name)
     /\ raw_extract(pre, op.index).ok) =>
        LET r == find_file(ar, op.name)
        IN  /\ r[1]
            /\ raw_extract(ar, r[2]) = raw_extract(pre, op.index)

(***************************************************************************)
(* C4                                                                      *)
(***************************************************************************)
\* C4: in every state reached from a new archive by add, delete and rename,
\* if the sorted flag is true then the names of entries 0..count-1 are in
\* non-decreasing case-insensitive order and find_file finds every entry
\* that is present.
C4_SortedNamesOrdered ==
    (/\ OnlyOps({"add", "delete", "delete_index", "rename"})
     /\ ar.raised = ""
     /\ ar.sorted) =>
        /\ \A i \in 0..(ar.count - 2) :
               rs_lod_compare_str(get_name(ar, i), get_name(ar, i + 1)) <= 0
        /\ \A i \in 0..(ar.count - 1) : find_file(ar, get_name(ar, i))[1]

(***************************************************************************)
(* C5                                                                      *)
(***************************************************************************)
IsMap(a, i) == is_blv_or_odm(get_name(a, i))

\* C5 (as amended): in a Games LOD, after any sequence of adds of names with
\* and without the .blv/.odm extensions, the entries whose names end in .blv
\* or .odm occupy a contiguous prefix of the directory: every map entry
\* precedes every non-map entry.
C5_MapsFormPrefix ==
    games_lod =>
        \A i, j \in 0..(ar.count - 1) :
            (IsMap(ar, i) /\ ~IsMap(ar, j)) => i < j

\* a third add has put a map in front of two other names
C5_Witness ==
    /\ games_lod
    /\ op.type = "add"
    /\ is_blv_or_odm(op.name)
    /\ ar.count = 3
    /\ op.result = 0
    /\ ~IsMap(ar, 1)
    /\ ~IsMap(ar, 2)

\* C5 (as stated): the map entries occupy a contiguous suffix of the
\* directory: every non-map entry precedes every map entry.
C5_MapsFormSuffix ==
    games_lod =>
        \A i, j \in 0..(ar.count - 1) :
            (~IsMap(ar, i) /\ IsMap(ar, j)) => i < j

(***************************************************************************)
(* C6                                                                      *)
(***************************************************************************)
\* C6: rename(index, new_name) where a different entry j already carries
\* new_name: afterwards the count is one less than before, exactly one entry
\* is named new_name, and that entry has the address and size fields of the
\* former entry index.
C6_RenameOntoExisting ==
    (/\ Len(hist) >= 1
     /\ op.type = "rename"
     /\ IndexesOf(pre, op.name) \ {op.index} # {}) =>
        /\ ar.count = pre.count - 1
        /\ Cardinality(IndexesOf(ar, op.name)) = 1
        /\ \A i \in IndexesOf(ar, op.name) :
               [ar.data[i + 1] EXCEPT !.name = <<>>]
                   = [pre.data[op.index + 1] EXCEPT !.name = <<>>]

(***************************************************************************)
(* C7                                                                      *)
(***************************************************************************)
\* the directory as C7 compares it: the names in order, each with its size
\* fields
Listing(a) ==
    [i \in 1..a.count |->
        [name |-> a.data[i].name, size |-> a.data[i].size,
         unp |-> a.data[i].unp, pk |-> a.data[i].pk]]

\* C7: from the same state, add(A); add(B); rename(A, C) and add(C); add(B)
\* produce the same directory: the same count, the same names in the same
\* order, the same size fields per name; B keeps the address assigned when
\* it was added.
C7_RenameEquivalent ==
    (/\ Len(hist) >= 3
     /\ LastOp(2).type = "add"
     /\ LastOp(1).type = "add"
     /\ LastOp(0).type = "rename"
     /\ LastOp(0).index = LastOp(2).result
     /\ LastOp(0).index \in IndexesOf(pre, LastOp(2).name)
     /\ ~SameName(LastOp(2).name, LastOp(1).name)
     /\ ~SameName(LastOp(2).name, LastOp(0).name)
     /\ ~SameName(LastOp(1).name, LastOp(0).name)
     /\ ~Present(Before(2), LastOp(2).name)
     /\ ~Present(Before(2), LastOp(1).name)
     /\ ~Present(Before(2), LastOp(0).name)) =>
        LET alt == add(add(Before(2), LastOp(0).name, LastOp(2).pay).a,
                       LastOp(1).name, LastOp(1).pay).a
        IN  /\ ar.count = alt.count
            /\ Listing(ar) = Listing(alt)
            /\ \A i \in IndexesOf(ar, LastOp(1).name) :
                   \A j \in IndexesOf(pre, LastOp(1).name) :
                       ar.data[i + 1].addr = pre.data[j + 1].addr

(***************************************************************************)
(* C8, C9                                                                  *)
(***************************************************************************)
\* the payload of the last add under the name among the first n operations
RECURSIVE LastAdded(_, _)
LastAdded(name, n) ==
    IF n = 0 THEN 0
    ELSE IF hist[n].o.type = "add" /\ SameName(hist[n].o.name, name)
         THEN hist[n].o.pay
    ELSE LastAdded(name, n - 1)

AddedNames(n) == {hist[k].o.name : k \in 1..n}

\* C8: with write_on_demand on, after a sequence of adds followed by save(),
\* the buffer map is empty and, for every added name, the bytes in the
\* backing file at the entry's address are the bytes last added under that
\* name: extracting after the save returns them.
C8_SaveWritesBuffers ==
    (/\ write_on_demand
     /\ Len(hist) >= 2
     /\ op.type = "save"
     /\ \A k \in 1..(Len(hist) - 1) : hist[k].o.type = "add") =>
        /\ ar.file_buffers = <<>>
        /\ \A name \in AddedNames(Len(hist) - 1) :
               LET r == find_file(ar, name)
               IN  /\ r[1]
                   /\ raw_extract(ar, r[2])
                        = [ok |-> TRUE,
                           bytes |-> PayloadBytes(LastAdded(name, Len(hist) - 1))]

\* C9: if payloads were staged by add under write_on_demand and close() is
\* called without a save(), the backing file afterwards contains those
\* payloads and a directory listing them.
C9_CloseFlushes ==
    (/\ write_on_demand
     /\ Len(hist) >= 2
     /\ op.type = "close"
     /\ \A k \in 1..(Len(hist) - 1) : hist[k].o.type = "add") =>
        /\ Len(ar.diskDir) = pre.count
        /\ \A i \in 0..(pre.count - 1) :
               /\ ar.diskDir[i + 1].name = get_name(pre, i)
               /\ HasBuffer(pre, i) =>
                      FileRead(ar.disk,
                               ar.diskDir[i + 1].addr + options.AddrStart,
                               get_size(pre, i))
                          = pre.file_buffers[i + 1].bytes

(***************************************************************************)
(* C10                                                                     *)
(***************************************************************************)
\* C10: if save_as raises, while copying an entry or while writing the
\* header, the directory table and file_size afterwards equal their values
\* immediately before the call.
C10_SaveAsRestores ==
    (/\ Len(hist) >= 1
     /\ op.type = "save_as"
     /\ ar.raised # "") =>
        /\ ar.data = pre.data
        /\ ar.file_size = pre.file_size

(***************************************************************************)
(* C11                                                                     *)
(***************************************************************************)
\* C11: when add raises after its name check (an I/O error while an entry is
\* relocated or the payload is written, or a name that cannot be encoded as
\* ASCII), the count, the table, file_size and the buffer list are those of
\* before the call, so no blank or half-filled slot is left in the table.
C11_AddRaisesRestores ==
    (Len(hist) >= 1 /\ op.type \in {"add_move", "add_write", "add_encode"}) =>
        /\ ar.count = pre.count
        /\ ar.data = pre.data
        /\ ar.file_size = pre.file_size
        /\ ar.file_buffers = pre.file_buffers

(***************************************************************************)
(* C12                                                                     *)
(***************************************************************************)
\* the entries with a pending buffer
Pending(a) == {j \in 0..(Len(a.file_buffers) - 1) : HasBuffer(a, j)}

\* C12: when the flush of several pending buffers fails on one entry, every
\* other pending entry has still been written to the file: at the least the
\* file extends over the range of each of them.
C12_FlushContinues ==
    (/\ Len(hist) >= 1
     /\ op.type = "save_raising"
     /\ Cardinality(Pending(pre)) >= 2) =>
        \A j \in Pending(pre) \ {op.fail} :
            RunsLen(ar.disk) >= get_address(pre, j)
                                + RunsLen(pre.file_buffers[j + 1].bytes)

(***************************************************************************)
(* C13                                                                     *)
(***************************************************************************)
RECURSIVE SumSizes(_, _)
SumSizes(a, i) == IF i >= a.count THEN 0 ELSE get_size(a, i) + SumSizes(a, i + 1)

\* the header, count slots and the payloads of the entries, and nothing else
PackedSize(a) == options.DataStart + a.count * options.ItemSize + SumSizes(a, 0)

\* C13: after rebuild() of an archive whose file holds orphaned gaps, the
\* file's size is the header size plus count times the slot size plus the
\* sizes of the entries, the payloads follow one another in directory order,
\* and every entry is still found and extracts to the same bytes.
C13_RebuildCompacts ==
    (/\ Len(hist) >= 1
     /\ op.type = "rebuild"
     /\ pre.count >= 1
     /\ RunsLen(pre.disk) > PackedSize(pre)) =>
        /\ RunsLen(ar.disk) = PackedSize(ar)
        /\ ar.file_size = PackedSize(ar)
        /\ get_address(ar, 0) = options.DataStart + ar.count * options.ItemSize
        /\ \A i \in 0..(ar.count - 2) :
              get_address(ar, i + 1) = get_address(ar, i) + get_size(ar, i)
        /\ \A i \in 0..(pre.count - 1) :
              /\ find_file(ar, get_name(pre, i))[1]
              /\ raw_extract(ar, find_file(ar, get_name(pre, i))[2])
                   = raw_extract(pre, find_file(pre, get_name(pre, i))[2])

(***************************************************************************)
(* C14                                                                     *)
(***************************************************************************)
\* C14: for every variant and every archive state A, save_as to a new path
\* followed by opening that file gives a directory equal to A's: the same
\* count, the same names in the same order and the same sizes.
C14_SaveAsLoadRoundTrip ==
    (/\ Len(hist) >= 2
     /\ LastOp(1).type = "save_as" /\ LastOp(1).fail = -1
     /\ LastOp(0).type = "load") =>
        /\ opened.ar.raised = ""
        /\ opened.ar.count = Before(1).count
        /\ \A i \in 0..(Before(1).count - 1) :
              /\ opened.ar.data[i + 1].name = get_name(Before(1), i)
              /\ SlotSize(opened.ar.opts, opened.ar.data[i + 1])
                   = get_size(Before(1), i)

(***************************************************************************)
(* C15                                                                     *)
(***************************************************************************)
\* the ids NNN of the entries palNNN of a that were added, among the first n
\* operations, as a palette file holding palette K
IdsHolding(a, n, K) ==
    {PalNumber(get_name(a, i)) : i \in {k \in 0..(a.count - 1) :
        /\ PalNumber(get_name(a, k)) > 0
        /\ LastAdded(get_name(a, k), n) # 0
        /\ PaletteOf(LastAdded(get_name(a, k), n)) = K}}

\* C15: in a bitmaps LOD that searches itself for palettes, a palette-mode
\* bitmap whose palette equals that of an existing entry palNNN is added
\* with the palette id NNN, and two successive bitmaps with the same palette
\* get the same id.
C15_SamePaletteSameId ==
    /\ (/\ Len(hist) >= 1
        /\ op.type = "add_bitmap"
        /\ bitmaps_lods # <<>>
        /\ IdsHolding(pre, Len(hist) - 1, op.pay) # {}) =>
            op.index \in IdsHolding(pre, Len(hist) - 1, op.pay)
    /\ (/\ Len(hist) >= 2
        /\ LastOp(0).type = "add_bitmap" /\ LastOp(1).type = "add_bitmap"
        /\ LastOp(0).pay = LastOp(1).pay) =>
            LastOp(0).index = LastOp(1).index

(***************************************************************************)
(* C16                                                                     *)
(***************************************************************************)
\* the ids NNN in use by the entries palNNN of a
UsedIds(a) ==
    {j \in {PalNumber(get_name(a, i)) : i \in 0..(a.count - 1)} : j >= 1 /\ j <= 32767}

\* the free ids of the band lo..hi that can be the lowest one
FreeIn(used, lo, hi) ==
    {j \in lo..Min(hi, lo + Cardinality(used)) : j \notin used}

\* the lowest free id of the first band that has one
LowestFree(a) ==
    IF FreeIn(UsedIds(a), 1, 999) # {} THEN SetMin(FreeIn(UsedIds(a), 1, 999))
    ELSE IF FreeIn(UsedIds(a), 1000, 9999) # {}
         THEN SetMin(FreeIn(UsedIds(a), 1000, 9999))
    ELSE SetMin(FreeIn(UsedIds(a), 10000, 32767))

\* no entry palNNN of a was added as a palette file that holds K
NoPaletteHolds(a, n, K) ==
    \A i \in 0..(a.count - 1) :
        PalNumber(get_name(a, i)) > 0 =>
            PaletteOf(LastAdded(get_name(a, i), n)) # K

\* find_same_palette on the present archive, for the palettes no entry holds
FreeIdFound ==
    \A K \in Palettes :
        NoPaletteHolds(ar, Len(hist), K) =>
            find_same_palette(ar, K) = <<FALSE, LowestFree(ar)>>

\* C16: for a palette that no existing entry holds, find_same_palette
\* reports no hit and returns the lowest id that no palNNN entry uses (1 in
\* an archive without palettes), and a bitmap added with such a palette
\* gets that id.
C16_FreeIdAssigned ==
    /\ FreeIdFound
    /\ (/\ Len(hist) >= 1
        /\ op.type = "add_bitmap"
        /\ NoPaletteHolds(pre, Len(hist) - 1, op.pay)) =>
            op.index = LowestFree(pre)

(***************************************************************************)
(* C17                                                                     *)
(***************************************************************************)
\* the error of a corrupt archive
S_RS_LOD_CORRUPT == "ERSLodException: File invalid or corrupt"

\* the file opened is no LOD: wrong signature, or shorter than the 92 bytes
\* of the shortest header
NotALod(v) ==
    /\ v.cls = "lod"
    /\ v.sig \notin {"LOD0", "C8LOD"} \/ v.len < 92

\* C17: opening as a LOD a file whose signature is neither 'LOD\0' nor
\* 0xC8 'LOD', or that is shorter than the header, fails with "File invalid
\* or corrupt", leaves the archive without a directory and never yields a
\* Heroes LOD.
C17_ForeignFileRejected ==
    (/\ op.type = "open"
     /\ opened.done
     /\ NotALod(opened.view)) =>
        /\ opened.ar.raised = S_RS_LOD_CORRUPT
        /\ opened.ar.count = 0
        /\ opened.ar.data = <<>>
        /\ ~(opened.ar.raised = "" /\ opened.ar.variant = "heroes")

(***************************************************************************)
(* C18                                                                     *)
(***************************************************************************)
\* the first payload of the SND file begins with the zlib magic 0x78 0x9C
ZlibMagic(v) == v.b0 = 120 /\ v.b1 = 156

\* C18: an SND file with at least one entry opens as MM-style (stride 52)
\* exactly when its first payload begins with the bytes 0x78 0x9C, and as
\* Heroes-style (stride 48) otherwise.
C18_SndSniffsZlibMagic ==
    (/\ op.type = "open"
     /\ opened.done
     /\ opened.view.cls = "snd"
     /\ opened.view.count >= 1
     /\ opened.view.entry) =>
        /\ opened.ar.raised = ""
        /\ IF ZlibMagic(opened.view)
           THEN opened.ar.variant = "sndmm" /\ opened.ar.opts.ItemSize = 52
           ELSE opened.ar.variant = "snd" /\ opened.ar.opts.ItemSize = 48

(***************************************************************************)
(* C19                                                                     *)
(***************************************************************************)
\* the bytes of the backing file at the start of entry i are name, zero
\* padded to the width of the name field
NameLeads(a, i, name) ==
    FileRead(a.disk, get_address(a, i), options.NameSize)
        = <<Run("name", 0, 0, options.NameSize, name)>>

\* C19: after an entry of a bitmaps LOD is renamed, the first NameSize bytes
\* of its stored payload are the new name, zero padded: at once when
\* write_on_demand is off, and after the next save when it is on.
C19_RenameRewritesPayloadName ==
    /\ (/\ ~write_on_demand
        /\ op.type = "rename"
        /\ ar.raised = ""
        /\ op.result >= 0) =>
            NameLeads(ar, op.result, op.name)
    /\ (/\ write_on_demand
        /\ Len(hist) >= 2
        /\ LastOp(0).type = "save"
        /\ LastOp(1).type = "rename"
        /\ ar.raised = ""
        /\ LastOp(1).result >= 0) =>
            NameLeads(ar, LastOp(1).result, LastOp(1).name)

(***************************************************************************)
(* C20                                                                     *)
(***************************************************************************)
\* the operations that write the archive
WriteOps == {"new", "add", "delete", "delete_index", "rename", "save", "rebuild"}

\* C20: after every completed write operation on a Heroes LOD (new, add,
\* delete, rename, save, rebuild) the backing file is at least MinFileSize
\* = 320092 bytes long.
C20_HeroesMinFileSize ==
    (/\ kind = "heroes"
     /\ op.type \in WriteOps
     /\ ar.raised = "") =>
        RunsLen(ar.disk) >= Options("heroes").MinFileSize

(***************************************************************************)
(* C21                                                                     *)
(***************************************************************************)
\* the canvases of a DEF frame have been packed under a compression that
\* takes pictures of their size (compression 3 asks for multiples of 32)
PackedFrame ==
    /\ call.fn \in {"_pack_bitmap", "extract_packed"}
    /\ call.data # <<>>
    /\ call.compr = 3 => call.first.img.w % 32 = 0 /\ call.first.img.h % 32 = 0

\* C21: for every DEF frame and each of the compressions 1, 2 and 3,
\* _pack_bitmap of the decoded object and shadow canvases succeeds, and
\* decoding what it returns gives canvases equal, pixel by pixel, to those
\* of the first decode.
C21_DefRoundTrip ==
    /\ PackedFrame => call.packed.raised = ""
    /\ (PackedFrame /\ call.fn = "extract_packed") =>
          /\ call.second.raised = ""
          /\ call.second.img = call.first.img
          /\ call.second.img_spec = call.first.img_spec

(***************************************************************************)
(* C22                                                                     *)
(***************************************************************************)
\* the pixel (x, y) of the picture lies in the frame rectangle of header h;
\* the lines of every frame of DefFrames cover the whole rectangle
InFrame(h, x, y) ==
    /\ x >= h.FrameLeft /\ x < h.FrameLeft + h.FrameWidth
    /\ y >= h.FrameTop /\ y < h.FrameTop + h.FrameHeight

\* 16 pixels of colour 5, then 16 pixels v
FiveThen(v) == [c \in 1..32 |-> IF c <= 16 THEN 5 ELSE v]

\* the frame of compression 2 with 16 pixels of colour 5 and 16 transparent
SpanFrame == DefFrame(2, 32, 1, 32, 1, 0, 0, <<<<5 * 32 + 15, 15>>>>)

\* C22: in the canvases of a decoded frame every pixel that no opcode wrote,
\* those outside the frame rectangle included, is 0 in the object canvas and
\* 0xFF in the shadow canvas; the compression 2 frame of 16 pixels of colour
\* 5 and 16 transparent pixels, decoded or packed and decoded, gives the
\* object canvas 5s then 0s and the shadow canvas 5s then 0xFF.
C22_CanvasDefaults ==
    /\ (call.fn = "extract_bmp" /\ call.first.raised = "") =>
          /\ call.first.img_spec.has
          /\ \A x \in 0..(call.first.img.w - 1), y \in 0..(call.first.img.h - 1) :
                ~InFrame(TRSDefPic(call.data), x, y) =>
                    /\ Pixel(call.first.img, x, y) = 0
                    /\ Pixel(call.first.img_spec, x, y) = 255
    /\ (call.fn = "extract_bmp" /\ call.data = SpanFrame) =>
          /\ call.first.img.px = FiveThen(0)
          /\ call.first.img_spec.px = FiveThen(255)
    /\ (/\ call.fn = "extract_packed" /\ call.compr = 2
        /\ call.first.img.px = FiveThen(0) /\ ~call.first.img_spec.has) =>
          /\ call.second.img.px = FiveThen(0)
          /\ call.second.img_spec.px = FiveThen(255)

(***************************************************************************)
(* C23                                                                     *)
(***************************************************************************)
\* the earliest 0-based index whose name has the greatest multiplicity
EarliestMostRepeated(frames) ==
    SetMin({i \in 0..(Len(frames) - 1) :
              \A k \in 1..Len(frames) :
                 Multiplicity(frames, frames[k]) <= Multiplicity(frames, frames[i + 1])})

\* the duration is v milliseconds
IsMs(dur, v) == dur.n = v * dur.d

\* the duration of the table for frame num of the call
TableMs(c, num) ==
    IF c.def_type = "9" /\ c.group_id = 4 /\ num = 5 THEN 1000
    ELSE IF c.def_type = "9" /\ c.group_id = 1 THEN 125
    ELSE IF c.def_type = "2" /\ c.group_id = 2 /\ num = 7 THEN 3000
    ELSE IF c.def_type = "3" /\ c.adv /\ num = EarliestMostRepeated(c.frames)
    THEN 1000
    ELSE IF c.def_type = "3" THEN 167
    ELSE 100

\* C23: get_frame_durations returns one duration per frame, the one of the
\* table: 1000 for type "9" group 4 frame 5, 125 for type "9" group 1, 3000
\* for type "2" group 2 frame 7, for type "3" 1000 at the earliest frame of
\* the most repeated name of an adventure-map creature and 167 elsewhere,
\* 100 for everything else.
C23_FrameDurations ==
    call.fn = "get_frame_durations" =>
        /\ Len(call.durations) = Len(call.frames)
        /\ \A num \in 0..(Len(call.frames) - 1) :
              IsMs(call.durations[num + 1], TableMs(call, num))

(***************************************************************************)
(* C24                                                                     *)
(***************************************************************************)
\* C24: in tolerant mode the extraction of a packed entry writes exactly
\* unpacked_size bytes whatever the input stream is, never fewer and never
\* more, and after a stream error the tail is zero bytes.
C24_TolerantWritesUnpackedSize ==
    call.fn = "unzip_ignore_errors" /\ call.noless =>
        call.out.data + call.out.zeros = call.unp

(***************************************************************************)
(* C25                                                                     *)
(***************************************************************************)
StreamsOps == {"add", "delete", "rename", "save", "save_as", "rebuild"}

\* C25: with block_in_file set the archive never holds the blocking read
\* stream and the write stream open at the same time, and once the write
\* group of add, delete, rename, save, save_as or rebuild has ended the
\* blocking read stream is open again.
C25_BlockStreamOrWriteStream ==
    call.fn \in StreamsOps /\ call.block_in_file =>
        /\ ~call.both
        /\ ~(call.block_stream # NoStream /\ call.write_stream # NoStream)
        /\ (call.write_stream = NoStream => call.block_stream # NoStream)

(***************************************************************************)
(* C26                                                                     *)
(***************************************************************************)
PayloadEnd(a, i) == get_address(a, i) + get_size(a, i)

PayloadsMeet(a, i, j) ==
    /\ get_size(a, i) > 0 /\ get_size(a, j) > 0
    /\ get_address(a, i) < PayloadEnd(a, j)
    /\ get_address(a, j) < PayloadEnd(a, i)

\* C26: with write_on_demand off, after any sequence of add, delete and
\* rename the payload regions [address, address + size) of two distinct live
\* entries are disjoint; a replacing add writes in place only where the new
\* payload reaches no other live entry's payload.
C26_PayloadsDisjoint ==
    ~write_on_demand /\ ar.raised = ""
        /\ OnlyOps({"add", "delete", "delete_index", "rename"}) =>
            \A i, j \in 0..(ar.count - 1) : i # j => ~PayloadsMeet(ar, i, j)

(***************************************************************************)
(* C27                                                                     *)
(***************************************************************************)
\* the bytes that write_header writes the directory table to
TableEnd(a) == options.DataStart + Len(a.data) * options.ItemSize

InTable(a, i) ==
    /\ get_size(a, i) > 0
    /\ get_address(a, i) < TableEnd(a)
    /\ options.DataStart < PayloadEnd(a, i)

\* C27: with write_on_demand off, after any sequence of add, delete and
\* rename no live entry's payload region meets the bytes of the directory
\* table, and the directory table has count slots.
C27_PayloadsClearOfTable ==
    ~write_on_demand /\ ar.raised = ""
        /\ OnlyOps({"add", "delete", "delete_index", "rename"}) =>
            /\ Len(ar.data) = ar.count
            /\ \A i \in 0..(ar.count - 1) : ~InTable(ar, i)

(***************************************************************************)
(* C28                                                                     *)
(***************************************************************************)
\* C28: after any sequence of add, delete and rename on an archive that was
\* empty, no two directory entries have names that are equal without regard
\* to case: an add of a name that is there replaces the entry.
C28_NamesUnique ==
    ar.raised = "" /\ OnlyOps({"add", "delete", "delete_index", "rename"}) =>
        \A i, j \in 0..(ar.count - 1) :
            i # j => ~SameName(get_name(ar, i), get_name(ar, j))

(***************************************************************************)
(* C29                                                                     *)
(***************************************************************************)
\* the bytes add hands to do_write_file for payload p
StoredBytes(p) ==
    IF StoredLen(p) < PayloadTable[p].len THEN DeflatedBytes(p) ELSE PayloadBytes(p)

\* the payload staged for the entry that carries the name after the first n
\* operations, 0 if it has none: the one last added under the name, or, for
\* an entry that was renamed to the name, the one it had before
RECURSIVE Staged(_, _)
Staged(name, n) ==
    LET o == hist[n].o
        b == hist[n].a
        Is(i) == i >= 0 /\ i < b.count /\ SameName(get_name(b, i), name)
        Was(i) == IF i < b.count THEN Staged(get_name(b, i), n - 1) ELSE 0
        Deleted(f) == f[1] /\ Is(f[2])
    IN  IF n = 0 THEN 0
        ELSE IF o.type = "add" /\ SameName(o.name, name) THEN o.pay
        ELSE IF o.type = "delete" /\ Deleted(find_file(b, o.name)) THEN 0
        ELSE IF o.type = "delete_index" /\ Is(o.index) THEN 0
        ELSE IF o.type = "rename" /\ SameName(o.name, name) THEN Was(o.index)
        ELSE IF o.type = "rename" /\ Is(o.index) THEN 0
        ELSE Staged(name, n - 1)

BufferOf(p) == IF p = 0 THEN NoBuf ELSE Buf(StoredBytes(p))

\* C29: with write_on_demand on, after any sequence of add, delete and
\* rename the staged buffer at position k belongs to a live slot k and holds
\* the payload staged for the entry that slot k carries.
C29_BuffersFollowSlots ==
    write_on_demand /\ ar.raised = ""
        /\ OnlyOps({"add", "delete", "delete_index", "rename"}) =>
            \A k \in 0..(Len(ar.file_buffers) - 1) :
                ar.file_buffers[k + 1].has =>
                    /\ k < ar.count
                    /\ ar.file_buffers[k + 1]
                         = BufferOf(Staged(get_name(ar, k), Len(hist)))

(***************************************************************************)
(* C30                                                                     *)
(***************************************************************************)
\* C30: a simple archive whose header write_header has written is loaded
\* again as the simple variant whatever its count is, 1000 and 10000 and
\* more included, and the version word read back is the version the
\* archive had before the header was written.
C30_SimpleHeaderRoundTrip ==
    call.fn = "load" /\ call.written =>
        /\ call.reopened.simple
        /\ call.reopened.version = call.version

====
